---- MODULE Spec2Model ----
(***************************************************************************)
(* A model of the EasyREST MySQL plugin (mysql_plugin.go, v0.6.2):         *)
(* context injection, routine calls, the transaction coordinator and the   *)
(* pooled connections the requests run on.                                 *)
(*                                                                         *)
(* Strings the code compares, sorts or folds (context keys, parameter      *)
(* names) are sequences of one-character strings; Text(s) is the Go string *)
(* they spell.  SQL text is built as a string, as the code builds it.      *)
(***************************************************************************)
EXTENDS Integers, Sequences, FiniteSets, TLC

VARIABLES
  pc,        \* pc[r]: where request r stands in its call
  req,       \* req[r]: the inputs of r's call: op, ctx, funcName, data, rows
  conn,      \* conn[r]: the pooled connection r's call holds, 0 when none
  pool,      \* pool[c]: connection c: inUse, sess (its session variables), last (who ran its last statement)
  tx,        \* tx[r]: the *sql.Tx of r's call: state, pref, pending (its uncommitted writes)
  db,        \* the committed writes: <<r, i>> is the i-th write of r's current call
  ret,       \* ret[r]: what the call returned: val, err
  seen,      \* seen[r]: log (the database calls made, in order), sess (the session the main
             \* statement ran in), op (how the operation ended: "ok", "failed", "not run")
  routines,  \* m.routines: routine name -> RoutineInfo
  workload,  \* the calls the environment makes: reqs, conns, inputs, failures
  fnIn,      \* the inputs of the function or handler under check
  fnOut,     \* its output
  handle,    \* m.db: 0 when nil, else the number of the pool it points to
  cache,     \* the cache table and the clock: table, now
  boot       \* the InitConnection calls of the host: pc, local, err per plugin,
             \* and the pools opened, the catalog loads, the pools replaced

mainVars == <<pc, req, conn, pool, tx, db, ret, seen, routines, workload>>
auxVars == <<handle, cache, boot>>
vars == <<pc, req, conn, pool, tx, db, ret, seen, routines, workload, fnIn, fnOut, handle, cache, boot>>

-----------------------------------------------------------------------------
(* Bounds *)

NumReqs == 2      \* concurrent requests
NumConns == 2     \* connections of the pool

Reqs == 1..NumReqs
Conns == 1..NumConns

-----------------------------------------------------------------------------
(* Strings *)

\* The characters used, in ASCII order (Go compares strings bytewise).
Chars == <<"0", "1", "2", "3", "4", "5", "6", "7", "8", "9",
           "A", "B", "C", "D", "E", "F", "G", "H", "I", "J", "K", "L", "M",
           "N", "O", "P", "Q", "R", "S", "T", "U", "V", "W", "X", "Y", "Z",
           "_",
           "a", "b", "c", "d", "e", "f", "g", "h", "i", "j", "k", "l", "m",
           "n", "o", "p", "q", "r", "s", "t", "u", "v", "w", "x", "y", "z">>

Code(c) == CHOOSE i \in 1..Len(Chars) : Chars[i] = c

IsUpper(c) == Code(c) \in Code("A")..Code("Z")

\* unicode.ToLower on an ASCII character
LowerChar(c) == IF IsUpper(c) THEN Chars[Code(c) - Code("A") + Code("a")] ELSE c

\* strings.EqualFold on ASCII strings
EqualFold(a, b) ==
  /\ Len(a) = Len(b)
  /\ \A i \in 1..Len(a) : LowerChar(a[i]) = LowerChar(b[i])

\* Go's a < b on strings
RECURSIVE StrLess(_, _)
StrLess(a, b) ==
  IF a = <<>> THEN b # <<>>
  ELSE IF b = <<>> THEN FALSE
  ELSE IF Head(a) = Head(b) THEN StrLess(Tail(a), Tail(b))
  ELSE Code(Head(a)) < Code(Head(b))

\* The Go string a character sequence spells.
RECURSIVE Text(_)
Text(s) == IF s = <<>> THEN "" ELSE Head(s) \o Text(Tail(s))

\* strings.Join
RECURSIVE Join(_, _)
Join(parts, sep) ==
  IF parts = <<>> THEN ""
  ELSE IF Len(parts) = 1 THEN parts[1]
  ELSE parts[1] \o sep \o Join(Tail(parts), sep)

\* The sequences that list every element of S once: the orders in which a Go
\* map with key set S may be iterated.
Orders(S) ==
  {s \in [1..Cardinality(S) -> S] : \A i, j \in DOMAIN s : i # j => s[i] # s[j]}

\* sort.Strings: the keys are inserted one by one, each after the elements
\* that are not greater than it.
RECURSIVE InsertString(_, _)
InsertString(x, s) ==
  IF s = <<>> THEN <<x>>
  ELSE IF StrLess(x, Head(s)) THEN <<x>> \o s
  ELSE <<Head(s)>> \o InsertString(x, Tail(s))

SortStringsUnsorted(s) == s

RECURSIVE SortStrings(_)
SortStrings(s) ==
  IF s = <<>> THEN <<>> ELSE InsertString(Head(s), SortStrings(Tail(s)))

\* strconv / fmt of a small non-negative integer
Digit(n) == Chars[n + 1]

RECURSIVE IntToString(_)
IntToString(n) == IF n < 10 THEN Digit(n) ELSE IntToString(n \div 10) \o Digit(n % 10)

-----------------------------------------------------------------------------
(* Errors: an error is the sequence of the parts of its message, outermost  *)
(* wrapper first; nil is the empty sequence.                                *)

NoErr == <<>>

\* errors.New(text)
NewError(text) == <<text>>

WrapOpaque(prefix, err) == <<prefix, "error">>

\* fmt.Errorf(prefix + "%w", err)
Wrap(prefix, err) == <<prefix>> \o err

\* strings.Contains(err.Error(), text), for text one of the parts
Contains(err, text) == \E i \in DOMAIN err : err[i] = text

-----------------------------------------------------------------------------
(* Context maps: map[string]any.  A value is a string, an integer, a nested *)
(* map of scalars, or a value the flattening rejects.                       *)

Str(s) == [t |-> "string", v |-> s]
Num(n) == [t |-> "int", v |-> n]
MapOf(m) == [t |-> "map", v |-> m]
Unsupported == [t |-> "unsupported", v |-> 0]

NilCtx == [isNil |-> TRUE, kv |-> <<>>]
Ctx(m) == [isNil |-> FALSE, kv |-> m]

EmptyMap == <<>>

kTimezone == <<"t", "i", "m", "e", "z", "o", "n", "e">>
kPrefer == <<"p", "r", "e", "f", "e", "r">>
kTx == <<"t", "x">>
kClaim == <<"c", "l", "a", "i", "m">>
kToken == <<"t", "o", "k", "e", "n">>
kFoo == <<"f", "o", "o">>
kAbc == <<"a", "b", "c">>
kXxx == <<"x", "x", "x">>

IsScalar(v) == v.t \in {"string", "int"}

\* The string a scalar is flattened to.
FormatScalar(v) == IF v.t = "string" THEN v.v ELSE IntToString(v.v)

FormattableAlways(kv) == TRUE

\* easyrest.FormatToContext fails on a value it cannot flatten.
Formattable(kv) ==
  \A k \in DOMAIN kv :
    \/ IsScalar(kv[k])
    \/ kv[k].t = "map" /\ \A j \in DOMAIN kv[k].v : IsScalar(kv[k].v[j])

FlatPairs(kv) ==
  {<<k, FormatScalar(kv[k])>> : k \in {k \in DOMAIN kv : IsScalar(kv[k])}}
  \cup UNION {{<<k \o <<"_">> \o j, FormatScalar(kv[k].v[j])>> : j \in DOMAIN kv[k].v}
                : k \in {k \in DOMAIN kv : kv[k].t = "map"}}

\* easyrest.FormatToContext: nested keys are joined by "_", values become strings.
FormatToContext(kv) ==
  [fk \in {p[1] : p \in FlatPairs(kv)} |-> (CHOOSE p \in FlatPairs(kv) : p[1] = fk)[2]]

\* The orders in which the flattened map of ctx may be iterated.
FlatOrders(ctx) ==
  IF ctx.isNil \/ ~Formattable(ctx.kv) THEN {<<>>}
  ELSE Orders(DOMAIN FormatToContext(ctx.kv))

-----------------------------------------------------------------------------
(* injectContext *)

NoStmt == <<>>

\* The loop over sortedKeys: the text after "SET ", the bound arguments and
\* the session variables the arguments are assigned to.
RECURSIVE SetList(_, _, _)
SetList(keys, flat, first) ==
  IF keys = <<>> THEN [text |-> "", args |-> <<>>, assigns |-> <<>>]
  ELSE LET k == Head(keys)
           rest == SetList(Tail(keys), flat, FALSE)
       IN [text |-> (IF first THEN "" ELSE ", ")
                      \o "@erctx_" \o Text(k) \o " = ?, @request_" \o Text(k) \o " = ?"
                      \o rest.text,
           args |-> <<flat[k], flat[k]>> \o rest.args,
           assigns |-> <<"@erctx_" \o Text(k), "@request_" \o Text(k)>> \o rest.assigns]

\* tzRaw, ok := ctx["timezone"]; tzStr, ok2 := tzRaw.(string); ok2 && tzStr != ""
HasTimezone(kv) ==
  /\ kTimezone \in DOMAIN kv
  /\ kv[kTimezone].t = "string"
  /\ kv[kTimezone].v # ""

\* injectContext(conn, ctx): the statement it hands to conn.ExecContext (none,
\* or one) and the error it returns.  order is the order in which the
\* flattened map happens to be iterated, execErr the engine's answer to the
\* statement (NoErr when it is accepted).
injectContext(ctx, order, execErr) ==
  IF ctx.isNil THEN [err |-> NoErr, stmts |-> NoStmt]
  ELSE IF ~Formattable(ctx.kv)
  THEN [err |-> Wrap("failed to format context: ", NewError("cannot format value")),
        stmts |-> NoStmt]
  ELSE LET flatCtx == FormatToContext(ctx.kv)
           sortedKeys == SortStrings(order)
           list == SetList(sortedKeys, flatCtx, TRUE)
           tz == HasTimezone(ctx.kv)
           stmt == [text |-> "SET " \o list.text
                               \o (IF tz
                                   THEN (IF sortedKeys = <<>> THEN "" ELSE ", ")
                                          \o "time_zone = ?"
                                   ELSE ""),
                    args |-> list.args
                               \o (IF tz THEN <<ctx.kv[kTimezone].v>> ELSE <<>>),
                    assigns |-> list.assigns
                               \o (IF tz THEN <<"time_zone">> ELSE <<>>)]
       IN IF DOMAIN flatCtx = {} THEN [err |-> NoErr, stmts |-> NoStmt]
          ELSE [err |-> IF execErr = NoErr THEN NoErr
                        ELSE Wrap("failed to set session variables: ", execErr),
                stmts |-> <<stmt>>]

\* What an accepted SET statement does to the session it runs in.
ApplySet(sess, stmt) ==
  [v \in DOMAIN sess \cup {stmt.assigns[i] : i \in DOMAIN stmt.assigns} |->
     IF \E i \in DOMAIN stmt.assigns : stmt.assigns[i] = v
     THEN stmt.args[CHOOSE i \in DOMAIN stmt.assigns :
                      /\ stmt.assigns[i] = v
                      /\ \A j \in DOMAIN stmt.assigns : stmt.assigns[j] = v => j <= i]
     ELSE sess[v]]

-----------------------------------------------------------------------------
(* The routine catalog and CallFunction's validation and rendering *)

Param(name, ordinal) ==
  [Name |-> name, DataType |-> "varchar", Mode |-> "IN", Ordinal |-> ordinal]

Routine(name, params, returnType) ==
  [Name |-> name, Params |-> params, ReturnType |-> returnType]

\* sort.Slice(rInfo.Params, func(i, j) { Params[i].Ordinal < Params[j].Ordinal })
\* on the short slices of a catalog (fewer than 12 elements) is an insertion
\* sort: an element moves past a neighbour only when less says so, and
\* parameters of equal Ordinal keep their order.
RECURSIVE InsertParam(_, _)
InsertParam(x, s) ==
  IF s = <<>> THEN <<x>>
  ELSE IF Head(s).Ordinal < x.Ordinal THEN <<Head(s)>> \o InsertParam(x, Tail(s))
  ELSE <<x>> \o s

SortParamsSkipped(params) == params

SortParamsDescending(params) == [i \in DOMAIN params |-> params[Len(params) + 1 - i]]

RECURSIVE SortParams(_)
SortParams(params) ==
  IF params = <<>> THEN <<>>
  ELSE InsertParam(Head(params), SortParams(Tail(params)))

\* val, found := data[param.Name]
ArgFound(data, name) == name \in DOMAIN data

\* The loop over rInfo.Params: the first declared parameter with no argument.
MissingParams(params, data) ==
  SelectSeq(params, LAMBDA prm : ~ArgFound(data, prm.Name))

ParamDeclaredAlways(params, k) == TRUE

\* The inner loop of the check for extra arguments.
ParamDeclared(params, k) == \E i \in DOMAIN params : EqualFold(params[i].Name, k)

\* The loop over data, in the order the map is iterated: the keys that match
\* no declared parameter.
ExtraArgs(params, order) ==
  SelectSeq(order, LAMBDA k : ~ParamDeclared(params, k))

Placeholders(params) == [i \in DOMAIN params |-> "?"]

CallArgs(params, data) == [i \in DOMAIN params |-> data[params[i].Name]]

\* callQuery
CallQuery(rInfo, funcName) ==
  IF rInfo.ReturnType # ""
  THEN "SELECT " \o funcName \o "(" \o Join(Placeholders(rInfo.Params), ", ") \o ") AS result"
  ELSE "CALL " \o funcName \o "(" \o Join(Placeholders(rInfo.Params), ", ") \o ")"

NoPlan == [err |-> NoErr, query |-> "", args |-> <<>>, sorted |-> <<>>, found |-> FALSE]

\* CallFunction up to its call of handleTransaction: the validation error, or
\* the statement and its arguments; sorted is what the sort leaves in the
\* routine's parameter slice.  order is the order in which data is iterated.
CallFunctionPlan(catalog, funcName, data, order) ==
  IF funcName \notin DOMAIN catalog
  THEN [NoPlan EXCEPT !.err = <<"routine ", funcName, " not found">>]
  ELSE LET rInfo == [catalog[funcName] EXCEPT !.Params = SortParams(@)]
           missing == MissingParams(rInfo.Params, data)
           extra == ExtraArgs(rInfo.Params, order)
       IN IF missing # <<>>
          THEN [NoPlan EXCEPT !.err = <<"missing required argument: ", Text(missing[1].Name)>>,
                              !.sorted = rInfo.Params, !.found = TRUE]
          ELSE IF extra # <<>>
          THEN [NoPlan EXCEPT !.err = <<"unexpected argument: ", Text(extra[1])>>,
                              !.sorted = rInfo.Params, !.found = TRUE]
          ELSE [err |-> NoErr,
                query |-> CallQuery(rInfo, funcName),
                args |-> CallArgs(rInfo.Params, data),
                sorted |-> rInfo.Params,
                found |-> TRUE]

\* m.routines after the call: the sort works on the slice the catalog holds.
CatalogAfterCall(catalog, funcName) ==
  IF funcName \in DOMAIN catalog
  THEN [catalog EXCEPT ![funcName].Params = SortParams(@)]
  ELSE catalog

-----------------------------------------------------------------------------
(* Calls, their inputs and results *)

IntVal(n) == [t |-> "int", n |-> n, rows |-> <<>>]
RowsVal(rs) == [t |-> "rows", n |-> 0, rows |-> rs]
NilVal == [t |-> "nil", n |-> 0, rows |-> <<>>]

Mutating == {"TableCreate", "TableUpdate", "TableDelete", "CallFunction"}

Input(op, ctx, funcName, data, rows) ==
  [op |-> op, ctx |-> ctx, funcName |-> funcName, data |-> data, rows |-> rows]

NoInput == Input("", NilCtx, "", EmptyMap, <<>>)

\* Request contexts
cAlice == Ctx(kClaim :> Str("Alice"))
cBobUTC == Ctx((kClaim :> Str("Bob")) @@ (kTimezone :> Str("UTC")))
cEmpty == Ctx(EmptyMap)
cRollback == Ctx((kClaim :> Str("Alice")) @@ (kPrefer :> MapOf(kTx :> Str("rollback"))))
cBadPref == Ctx(kPrefer :> MapOf(kTx :> Str("bogus")))
cUnformattable == Ctx(kFoo :> Unsupported)

\* Parameter and argument names
nP1 == <<"p", "1">>
nP1Upper == <<"P", "1">>
nP2 == <<"p", "2">>
nZz == <<"z", "z">>

\* The catalog loadRoutines leaves: each routine's parameters in ordinal order.
LoadedRoutines ==
  ("doSomething" :> Routine("doSomething", <<Param(nP1, 1), Param(nP2, 2)>>, ""))
  @@ ("fnName" :> Routine("fnName", <<Param(nP1, 1)>>, "varchar"))

ArgsBoth == (nP1 :> "hello") @@ (nP2 :> "world")

\* The calls of the transaction workload: every operation under every context,
\* and routine calls that fail validation.
TxContexts == {NilCtx, cEmpty, cAlice, cRollback, cBadPref, cUnformattable}

TxInputs ==
  {Input(op, c, "", EmptyMap, <<>>) : op \in {"TableGet", "TableUpdate", "TableDelete"}, c \in TxContexts}
  \cup {Input("TableCreate", c, "", EmptyMap, rows) : rows \in {<<"row1">>, <<"row1", "row2">>}, c \in TxContexts}
  \cup {Input("CallFunction", c, "doSomething", ArgsBoth, <<>>) : c \in TxContexts}
  \cup {Input("CallFunction", c, "fnName", nP1 :> "hello", <<>>) : c \in {NilCtx, cRollback}}
  \cup {Input("CallFunction", c, f, d, <<>>) :
          c \in {NilCtx, cAlice},
          f \in {"doSomething"},
          d \in {nP1 :> "hello", ArgsBoth @@ (nZz :> "extra"), (nP1Upper :> "hello") @@ (nP2 :> "world")}}
  \cup {Input("CallFunction", cAlice, "noSuchRoutine", EmptyMap, <<>>)}

\* The calls of the concurrent workload: reads and updates under contexts
\* that set different session variables.
PoolInputs ==
  {Input("TableGet", c, "", EmptyMap, <<>>) : c \in {NilCtx, cBobUTC}}
  \cup {Input("TableUpdate", c, "", EmptyMap, <<>>) : c \in {NilCtx, cAlice}}

EngineError == NewError("stored procedure error")
WhereError == NewError("invalid where clause")

\* What the engine may answer to one database call.
Answers == IF workload.failures THEN {NoErr, EngineError} ELSE {NoErr}

NoTx == [state |-> "none", pref |-> "", pending |-> {}, result |-> NilVal]
NoSeen == [log |-> <<>>, sess |-> <<>>, op |-> ""]
NoRet == [val |-> NilVal, err |-> NoErr]

\* The session of a fresh connection.
FreshSession == "time_zone" :> "SYSTEM"

\* No cleanup cycle has run.
NoCycle == [outcome |-> "", deleted |-> {}]

\* No InitConnection call made yet.  Of a call: pc, local (the pool it
\* opened), err (what it returned) and, inside loadRoutines, at (the row the
\* cursor stands at), fail (how the scan will end), info (the rInfo read).
NoBoot ==
  [pc |-> [p \in {"db", "cache"} |-> "idle"], local |-> [p \in {"db", "cache"} |-> 0],
   err |-> [p \in {"db", "cache"} |-> <<>>],
   at |-> [p \in {"db", "cache"} |-> 0],
   fail |-> [p \in {"db", "cache"} |-> [kind |-> "none", at |-> 0]],
   info |-> [p \in {"db", "cache"} |-> <<>>],
   opened |-> 0, loads |-> 0, replaced |-> 0]

\* An empty cache table at time 0, the cleanup task not started.
\* No Set call under way
NoSet == [key |-> "", value |-> "", expires |-> 0, at |-> 0]

NoCache ==
  [table |-> <<>>, now |-> 0, set |-> NoSet, cleaner |-> "off", cycles |-> 0, last |-> NoCycle]

MainInit ==
  /\ handle = 1
  /\ cache = NoCache
  /\ boot = NoBoot
  /\ pc = [r \in Reqs |-> "idle"]
  /\ req = [r \in Reqs |-> NoInput]
  /\ conn = [r \in Reqs |-> 0]
  /\ pool = [c \in Conns |-> [inUse |-> FALSE, sess |-> FreshSession, last |-> 0]]
  /\ tx = [r \in Reqs |-> NoTx]
  /\ db = {}
  /\ ret = [r \in Reqs |-> NoRet]
  /\ seen = [r \in Reqs |-> NoSeen]
  /\ routines = LoadedRoutines

FnIdle ==
  /\ fnIn = [fn |-> "none"]
  /\ fnOut = [fn |-> "none"]

-----------------------------------------------------------------------------
(* The pool and the transaction preference *)

\* m.db.Conn hands out a connection no other call holds.
FreeConns == {c \in workload.conns : ~pool[c].inUse}

\* defer conn.Close(): the connection goes back to the pool.  (A transaction
\* the call left open stays open on it.)
ConnClose(p, c) == [p EXCEPT ![c].inUse = FALSE]

OtherConn(c) == IF \E d \in Conns : d # c THEN CHOOSE d \in Conns : d # c ELSE c

\* The connection the main statement runs on: conn.QueryContext in TableGet,
\* the transaction begun on conn in handleTransaction.
MainStmtConn(c) == c

\* A statement of request r runs on connection c, in session sess.
RunOn(p, c, r, sess) == [p EXCEPT ![c].sess = sess, ![c].last = r]

\* easyrest.GetTxPreference: prefer.tx, "commit" when absent, an error when it
\* is neither "commit" nor "rollback".
GetTxPreference(kv) ==
  IF /\ kPrefer \in DOMAIN kv
     /\ kv[kPrefer].t = "map"
     /\ kTx \in DOMAIN kv[kPrefer].v
     /\ kv[kPrefer].v[kTx].t = "string"
     /\ kv[kPrefer].v[kTx].v # ""
  THEN LET v == kv[kPrefer].v[kTx].v
       IN IF v \in {"commit", "rollback"}
          THEN [pref |-> v, err |-> NoErr]
          ELSE [pref |-> "", err |-> <<"invalid tx preference: ", v>>]
  ELSE [pref |-> "commit", err |-> NoErr]

\* What a wrapper returns beside an error: TableUpdate and TableDelete 0,
\* the others nil.
ErrVal(op) == IF op \in {"TableUpdate", "TableDelete"} THEN IntVal(0) ELSE NilVal

RollbackResultUnchanged(result) == result

\* The result handleTransaction returns after a preferred rollback.
RollbackResult(result) == IF result.t = "int" THEN IntVal(0) ELSE result

-----------------------------------------------------------------------------
(* The operations run inside handleTransaction, and TableGet's query *)

Outcome(err, val, pending, stmts) ==
  [err |-> err, val |-> val, pending |-> pending, stmts |-> stmts]

InsertsReversed(rows, n) == [i \in 1..n |-> "INSERT " \o rows[Len(rows) + 1 - i]]

\* The INSERT statements of the first n rows, one per row, in the order of
\* the rows.
Inserts(rows, n) == [i \in 1..n |-> "INSERT " \o rows[i]]

ScannedRows == {<<>>, <<"out1">>}

\* TableCreate's closure: one INSERT per row, in order, until one fails.
CreateOutcomes(r, in) ==
  {Outcome(NoErr, RowsVal(in.rows), {<<r, i>> : i \in 1..Len(in.rows)},
           Inserts(in.rows, Len(in.rows)))}
  \cup {Outcome(Wrap("failed to execute insert: ", e), NilVal,
                {<<r, i>> : i \in 1..k}, Inserts(in.rows, k + 1)) :
          k \in 0..(Len(in.rows) - 1), e \in Answers \ {NoErr}}

\* TableUpdate's and TableDelete's closures.
CountOutcomes(r, in, stmt, execPrefix, affectedPrefix) ==
  {Outcome(NoErr, IntVal(n), IF n > 0 THEN {<<r, 1>>} ELSE {}, <<stmt>>) : n \in {0, 1}}
  \cup {Outcome(Wrap("failed to build WHERE: ", WhereError), IntVal(0), {}, <<>>) :
          e \in Answers \ {NoErr}}
  \cup {Outcome(Wrap(execPrefix, e), IntVal(0), {}, <<stmt>>) : e \in Answers \ {NoErr}}
  \cup {Outcome(Wrap(affectedPrefix, e), IntVal(0), {<<r, 1>>}, <<stmt>>) :
          e \in Answers \ {NoErr}}

\* The ways scanRows fails: r.Columns(), r.Scan of a row, r.Err() after the
\* loop; each returns nil rows and the error under its own prefix.
ScanErrorPrefixes == {"failed to get columns: ", "failed to scan row: ", "row iteration error: "}

\* CallFunction's closure: the query, then scanRows.
CallOutcomes(r, in, query) ==
  {Outcome(NoErr, RowsVal(rows), {<<r, 1>>}, <<query>>) : rows \in ScannedRows}
  \cup {Outcome(Wrap("failed to call routine: ", e), NilVal, {}, <<query>>) :
          e \in Answers \ {NoErr}}
  \cup {Outcome(Wrap("failed to scan routine result: ", Wrap(prefix, e)),
                NilVal, {<<r, 1>>}, <<query>>) :
          prefix \in ScanErrorPrefixes, e \in Answers \ {NoErr}}

\* TableGet's query, then scanRows.
GetOutcomes(in) ==
  {Outcome(NoErr, RowsVal(rows), {}, <<"SELECT">>) : rows \in ScannedRows}
  \cup {Outcome(Wrap("failed to execute query: ", e), NilVal, {}, <<"SELECT">>) :
          e \in Answers \ {NoErr}}
  \cup {Outcome(Wrap(prefix, e), NilVal, {}, <<"SELECT">>) :
          prefix \in ScanErrorPrefixes, e \in Answers \ {NoErr}}

OpOutcomes(r, in) ==
  CASE in.op = "TableCreate" -> CreateOutcomes(r, in)
    [] in.op = "TableUpdate" ->
         CountOutcomes(r, in, "UPDATE", "failed to execute update: ", "failed to get rowsAffected: ")
    [] in.op = "TableDelete" ->
         CountOutcomes(r, in, "DELETE", "failed to execute delete: ", "failed to retrieve rowsAffected: ")
    [] in.op = "CallFunction" ->
         CallOutcomes(r, in, CallFunctionPlan(routines, in.funcName, in.data,
                                           CHOOSE o \in Orders(DOMAIN in.data) : TRUE).query)
    [] in.op = "TableGet" -> GetOutcomes(in)

-----------------------------------------------------------------------------
(* The calls, step by step *)

Log(r, events) == [seen EXCEPT ![r].log = @ \o events]

\* The return statement of a call.
Return(r, val, err) ==
  /\ ret' = [ret EXCEPT ![r] = [val |-> val, err |-> err]]
  /\ pc' = [pc EXCEPT ![r] = "done"]

OldWrite == <<0, 0>>

\* The writes an earlier call of request r committed stay in the database;
\* they are no longer told apart.
Retire(d, r) ==
  {e \in d : e[1] # r} \cup (IF \E e \in d : e[1] = r THEN {OldWrite} ELSE {})

\* A request arrives.  TableGet builds its statement, and CallFunction looks
\* the routine up, sorts its parameters and validates the arguments, before
\* either touches the pool.
Call(r) ==
  /\ pc[r] \in {"idle", "done"}
  /\ r \in workload.reqs
  /\ \E in \in workload.inputs :
       \E order \in Orders(DOMAIN in.data), badWhere \in {e \in Answers : in.op = "TableGet" \/ e = NoErr} :
         LET plan == CallFunctionPlan(routines, in.funcName, in.data, order)
             early == IF in.op = "CallFunction" THEN plan.err
                      ELSE IF badWhere # NoErr THEN Wrap("failed to build WHERE: ", WhereError)
                      ELSE NoErr
         IN /\ req' = [req EXCEPT ![r] = in]
            /\ db' = Retire(db, r)
            /\ routines' = IF in.op = "CallFunction"
                           THEN CatalogAfterCall(routines, in.funcName)
                           ELSE routines
            /\ IF early # NoErr
               THEN Return(r, NilVal, early)
               ELSE /\ pc' = [pc EXCEPT ![r] = "acquire"]
                    /\ ret' = [ret EXCEPT ![r] = NoRet]
            /\ tx' = [tx EXCEPT ![r] = NoTx]
            /\ seen' = [seen EXCEPT ![r] = NoSeen]
            /\ UNCHANGED <<conn, pool, workload, fnIn, fnOut, handle, cache, boot>>

StepAfterAcquireAlwaysBegin(in) == "begin"

\* What follows the acquired connection: BeginTx in handleTransaction; in
\* TableGet injectContext when there is a context, else the query.
StepAfterAcquire(in) ==
  IF in.op \in Mutating THEN "begin"
  ELSE IF in.ctx.isNil THEN "op" ELSE "inject"

\* conn, err := m.db.Conn(ctx); defer conn.Close()
Acquire(r) ==
  /\ pc[r] = "acquire"
  /\ \E e \in Answers :
       IF e # NoErr
       THEN /\ Return(r, ErrVal(req[r].op), Wrap("failed to get connection: ", e))
            /\ UNCHANGED <<conn, pool, seen>>
       ELSE \E c \in FreeConns :
              /\ conn' = [conn EXCEPT ![r] = c]
              /\ pool' = [pool EXCEPT ![c].inUse = TRUE]
              /\ seen' = Log(r, <<"Conn">>)
              /\ pc' = [pc EXCEPT ![r] = StepAfterAcquire(req[r])]
              /\ UNCHANGED ret
  /\ UNCHANGED <<req, tx, db, routines, workload, fnIn, fnOut, handle, cache, boot>>

\* tx, err := conn.BeginTx(ctx, nil)
Begin(r) ==
  /\ pc[r] = "begin"
  /\ \E e \in Answers :
       IF e # NoErr
       THEN /\ Return(r, ErrVal(req[r].op), Wrap("failed to begin tx: ", e))
            /\ pool' = ConnClose(pool, conn[r])
            /\ conn' = [conn EXCEPT ![r] = 0]
            /\ seen' = Log(r, <<"Close">>)
            /\ UNCHANGED tx
       ELSE /\ tx' = [tx EXCEPT ![r] = [NoTx EXCEPT !.state = "open", !.pref = "commit"]]
            /\ seen' = Log(r, <<"BeginTx">>)
            /\ pc' = [pc EXCEPT ![r] = "pref"]
            /\ UNCHANGED <<conn, pool, ret>>
  /\ UNCHANGED <<req, db, routines, workload, fnIn, fnOut, handle, cache, boot>>

StepAfterPreferenceSkipsInject(ctx) == "op"

\* What follows a resolved preference: injectContext, in the same branch
\* `if ctxMap != nil`.
StepAfterPreference(ctx) == IF ctx.isNil THEN "op" ELSE "inject"

\* if ctxMap != nil { txPreference, err = easyrest.GetTxPreference(ctxMap);
\* if err != nil { return nil, err } ... }
\* The return on an error ends neither the transaction nor, therefore, the
\* call: the deferred conn.Close() waits for the transactions begun on conn
\* (database/sql holds the connection's closemu for each of them), and this
\* one is open for good.  The call stays at "closing", holding its connection.
Preference(r) ==
  /\ pc[r] = "pref"
  /\ LET p == GetTxPreference(req[r].ctx.kv)
     IN IF req[r].ctx.isNil
        THEN /\ pc' = [pc EXCEPT ![r] = "op"]
             /\ seen' = Log(r, <<"Preference">>)
             /\ UNCHANGED <<conn, pool, ret, tx>>
        ELSE IF p.err # NoErr
        THEN /\ ret' = [ret EXCEPT ![r] = [val |-> ErrVal(req[r].op), err |-> p.err]]
             /\ pc' = [pc EXCEPT ![r] = "closing"]
             /\ seen' = Log(r, <<"Preference">>)
             /\ UNCHANGED <<conn, pool, tx>>
        ELSE /\ tx' = [tx EXCEPT ![r].pref = p.pref]
             /\ seen' = Log(r, <<"Preference">>)
             /\ pc' = [pc EXCEPT ![r] = StepAfterPreference(req[r].ctx)]
             /\ UNCHANGED <<conn, pool, ret>>
  /\ UNCHANGED <<req, db, routines, workload, fnIn, fnOut, handle, cache, boot>>

\* m.injectContext(conn, ctx), and what its caller does with an error:
\* handleTransaction rolls back and wraps it, TableGet returns it.
Inject(r) ==
  /\ pc[r] = "inject"
  /\ \E order \in FlatOrders(req[r].ctx), e \in Answers :
       LET res == injectContext(req[r].ctx, order, e)
           c == conn[r]
           sent == res.stmts # NoStmt
           p1 == IF ~sent THEN pool
                 ELSE RunOn(pool, c, r,
                            IF e = NoErr THEN ApplySet(pool[c].sess, res.stmts[1])
                            ELSE pool[c].sess)
           sql == IF sent THEN <<res.stmts[1].text>> ELSE <<>>
           mut == req[r].op \in Mutating
       IN /\ sent \/ e = NoErr
          /\ IF res.err # NoErr
             THEN /\ Return(r, ErrVal(req[r].op),
                            IF mut THEN Wrap("failed to inject context: ", res.err) ELSE res.err)
                  /\ tx' = IF mut THEN [tx EXCEPT ![r].state = "rolledback"] ELSE tx
                  /\ seen' = Log(r, sql \o (IF mut THEN <<"Rollback">> ELSE <<>>) \o <<"Close">>)
                  /\ pool' = ConnClose(p1, c)
                  /\ conn' = [conn EXCEPT ![r] = 0]
             ELSE /\ pc' = [pc EXCEPT ![r] = "op"]
                  /\ seen' = Log(r, sql)
                  /\ pool' = p1
                  /\ UNCHANGED <<conn, ret, tx>>
  /\ UNCHANGED <<req, db, routines, workload, fnIn, fnOut, handle, cache, boot>>

\* result, err := operation(tx), with tx.Rollback() on an error; in TableGet
\* conn.QueryContext and scanRows.
Operation(r) ==
  /\ pc[r] = "op"
  /\ \E o \in OpOutcomes(r, req[r]) :
       LET c == MainStmtConn(conn[r])
           mut == req[r].op \in Mutating
           ran == o.stmts # <<>>
           p1 == IF ran THEN RunOn(pool, c, r, pool[c].sess) ELSE pool
           s1 == [seen EXCEPT ![r].log = @ \o o.stmts,
                              ![r].sess = IF ran THEN pool[c].sess ELSE @,
                              ![r].op = IF o.err = NoErr THEN "ok"
                                        ELSE IF ran THEN "failed" ELSE "not run"]
       IN IF mut /\ o.err = NoErr
          THEN /\ tx' = [tx EXCEPT ![r].pending = o.pending, ![r].result = o.val]
               /\ pc' = [pc EXCEPT ![r] = "end"]
               /\ seen' = s1
               /\ pool' = p1
               /\ UNCHANGED <<conn, ret>>
          ELSE /\ Return(r, IF o.err = NoErr THEN o.val ELSE ErrVal(req[r].op), o.err)
               /\ tx' = IF mut THEN [tx EXCEPT ![r].state = "rolledback", ![r].pending = o.pending]
                        ELSE tx
               /\ seen' = [s1 EXCEPT ![r].log = @ \o (IF mut THEN <<"Rollback">> ELSE <<>>) \o <<"Close">>]
               /\ pool' = ConnClose(p1, conn[r])
               /\ conn' = [conn EXCEPT ![r] = 0]
  /\ UNCHANGED <<req, db, routines, workload, fnIn, fnOut, handle, cache, boot>>

\* sql.ErrTxDone
ErrTxDone == NewError("sql: transaction has already been committed or rolled back")

\* What tx.Rollback() answers after tx.Commit() has failed: database/sql
\* marks the transaction done before it asks the driver to commit, so the
\* rollback is refused and no ROLLBACK reaches the engine.
RollbackAfterCommit == ErrTxDone

CommitErrorSwallowed(e, rbErr) == NoErr

\* The error returned when tx.Commit() failed with e and the rollback that
\* follows answered rbErr.
CommitError(e, rbErr) ==
  IF rbErr # NoErr
  THEN Wrap("failed to commit transaction: ", e) \o Wrap(" (rollback also failed: ", rbErr) \o <<")">>
  ELSE Wrap("failed to commit transaction: ", e)

\* The end of handleTransaction: the preferred rollback, or the commit and,
\* when the commit fails, one rollback.
EndTx(r) ==
  /\ pc[r] = "end"
  /\ \E e \in Answers :
       /\ IF tx[r].pref = "rollback"
          THEN /\ tx' = [tx EXCEPT ![r].state = "rolledback"]
               /\ seen' = Log(r, <<"Rollback", "Close">>)
               /\ db' = db
               /\ IF e # NoErr
                  THEN Return(r, ErrVal(req[r].op), Wrap("failed to rollback transaction: ", e))
                  ELSE Return(r, RollbackResult(tx[r].result), NoErr)
          ELSE IF e = NoErr
          THEN /\ tx' = [tx EXCEPT ![r].state = "committed"]
               /\ seen' = Log(r, <<"Commit", "Close">>)
               /\ db' = db \cup tx[r].pending
               /\ Return(r, tx[r].result, NoErr)
          ELSE /\ tx' = [tx EXCEPT ![r].state = "rolledback"]
               /\ seen' = Log(r, <<"Commit", "Rollback", "Close">>)
               /\ db' = db
               /\ Return(r, ErrVal(req[r].op), CommitError(e, RollbackAfterCommit))
  /\ pool' = ConnClose(pool, conn[r])
  /\ conn' = [conn EXCEPT ![r] = 0]
  /\ UNCHANGED <<req, routines, workload, fnIn, fnOut, handle, cache, boot>>

MainNext ==
  \E r \in Reqs :
    \/ Call(r)
    \/ Acquire(r)
    \/ Begin(r)
    \/ Preference(r)
    \/ Inject(r)
    \/ Operation(r)
    \/ EndTx(r)

\* The transaction workload: one request at a time, every operation, every
\* context, every failure of the engine.
TxWorkload == [reqs |-> {1}, conns |-> {1}, inputs |-> TxInputs, failures |-> TRUE]

\* The concurrent workload: all requests share the pool.
PoolWorkload == [reqs |-> Reqs, conns |-> Conns, inputs |-> PoolInputs, failures |-> FALSE]

\* The routine workload: concurrent calls of the same routines, valid and
\* invalid, next to a read.
RpcInputs ==
  {Input("CallFunction", cAlice, "doSomething", ArgsBoth, <<>>),
   Input("CallFunction", NilCtx, "doSomething", nP1 :> "hello", <<>>),
   Input("CallFunction", NilCtx, "fnName", nP1 :> "hello", <<>>),
   Input("TableGet", NilCtx, "", EmptyMap, <<>>)}

RpcWorkload == [reqs |-> Reqs, conns |-> Conns, inputs |-> RpcInputs, failures |-> FALSE]

Init == MainInit /\ workload = PoolWorkload /\ FnIdle
Next == MainNext
Spec == Init /\ [][Next]_vars

InitTx == MainInit /\ workload = TxWorkload /\ FnIdle
SpecTx == InitTx /\ [][Next]_vars

InitRpc == MainInit /\ workload = RpcWorkload /\ FnIdle
SpecRpc == InitRpc /\ [][Next]_vars

\* The same, with the calls kept running: a step that can be taken is taken.
SpecTxFair == InitTx /\ [][Next]_vars /\ WF_vars(Next)

-----------------------------------------------------------------------------
(* injectContext and CallFunction's validation and rendering on their own:  *)
(* the inputs are drawn by Init, one action applies the function.           *)

MaxCtxKeys == 3   \* keys of a context map
MaxParams == 3    \* declared parameters of a routine

NoWorkload == [reqs |-> {}, conns |-> {}, inputs |-> {}, failures |-> FALSE]

CtxKeys == {kAbc, kClaim, kPrefer, kTimezone, kToken, kXxx}

\* The values a context map may hold under key k.
CtxValues(k) ==
  IF k = kTimezone THEN {Str("UTC"), Str(""), Num(123)}
  ELSE IF k = kPrefer THEN {MapOf(kTx :> Str("rollback"))}
  ELSE {Str("val_" \o Text(k)), Num(123)}

AllCtxValues == UNION {CtxValues(k) : k \in CtxKeys}

InjectContexts ==
  UNION {{Ctx(m) : m \in {m \in [S -> AllCtxValues] : \A k \in S : m[k] \in CtxValues(k)}} :
           S \in {S \in SUBSET CtxKeys : Cardinality(S) <= MaxCtxKeys}}

InjectInputs ==
  UNION {{[fn |-> "injectContext", ctx |-> c, order |-> o, execErr |-> e] :
            o \in FlatOrders(c), e \in {NoErr, EngineError}} : c \in InjectContexts}

InitInject ==
  /\ MainInit
  /\ workload = NoWorkload
  /\ fnIn \in InjectInputs
  /\ fnOut = [fn |-> "none"]

ApplyInjectContext ==
  /\ fnIn.fn = "injectContext"
  /\ fnOut.fn = "none"
  /\ fnOut' = [fn |-> "injectContext",
               res |-> injectContext(fnIn.ctx, fnIn.order, fnIn.execErr)]
  /\ UNCHANGED <<mainVars, fnIn, auxVars>>

NextInject == ApplyInjectContext
SpecInject == InitInject /\ [][NextInject]_vars

nP3 == <<"p", "3">>
nP4 == <<"p", "4">>

\* The names of a routine's parameters, by ordinal position.
ParamNames == <<nP1, nP2, nP3, nP4>>

ArgKeys == {nP1, nP1Upper, nP2, nP3, nZz}

\* The argument maps: each key has a value of its own.
ArgMaps == {[k \in S |-> "val_" \o Text(k)] : S \in SUBSET ArgKeys}

\* The catalogs: one routine of up to MaxParams parameters, stored in any
\* order, with or without a return type.
CallCatalogs ==
  UNION {{("rName" :> Routine("rName", ps, rt)) :
            ps \in Orders({Param(ParamNames[i], i) : i \in 1..n}), rt \in {"", "varchar"}} :
           n \in 0..MaxParams}

CallInputs ==
  UNION {{[fn |-> "CallFunction", catalog |-> cat, funcName |-> f, data |-> d, order |-> o] :
            cat \in CallCatalogs, f \in {"rName"}, o \in Orders(DOMAIN d)} : d \in ArgMaps}
  \cup {[fn |-> "CallFunction", catalog |-> LoadedRoutines, funcName |-> "noSuchRoutine",
         data |-> EmptyMap, order |-> <<>>]}

InitCall ==
  /\ MainInit
  /\ workload = NoWorkload
  /\ fnIn \in CallInputs
  /\ fnOut = [fn |-> "none"]

ApplyCallFunction ==
  /\ fnIn.fn = "CallFunction"
  /\ fnOut.fn = "none"
  /\ fnOut' = [fn |-> "CallFunction",
               plan |-> CallFunctionPlan(fnIn.catalog, fnIn.funcName, fnIn.data, fnIn.order),
               catalog |-> CatalogAfterCall(fnIn.catalog, fnIn.funcName)]
  /\ UNCHANGED <<mainVars, fnIn, auxVars>>

NextCall == ApplyCallFunction
SpecCall == InitCall /\ [][NextCall]_vars

-----------------------------------------------------------------------------
(* loadRoutines and InitConnection                                          *)

MaxMetaRows == 3  \* rows of information_schema.parameters in one scan

\* One row of the metadata query.
MetaRow(name, param, dataType, mode, ordinal) ==
  [SpecificName |-> name, ParameterName |-> param, DataType |-> dataType,
   ParameterMode |-> mode, Ordinal |-> ordinal]

\* How the scan of the metadata may end: the query fails, Scan fails at row
\* at, or the cursor stops before row at with an error only rows.Err() tells.
NoLoadFailure == [kind |-> "none", at |-> 0]
LoadFailure(kind, at) == [kind |-> kind, at |-> at]

AddMetaRowKeepingOut(acc, row) ==
  LET rName == row.SpecificName
      rInfo == IF rName \in DOMAIN acc THEN acc[rName] ELSE Routine(rName, <<>>, "")
      next == IF row.Ordinal = 0 THEN [rInfo EXCEPT !.ReturnType = row.DataType]
              ELSE [rInfo EXCEPT !.Params =
                      Append(@, [Name |-> row.ParameterName, DataType |-> row.DataType,
                                 Mode |-> row.ParameterMode, Ordinal |-> row.Ordinal])]
  IN (rName :> next) @@ acc

\* The body of the loop over the rows: what row does to the catalog.
AddMetaRow(acc, row) ==
  LET rName == row.SpecificName
      rInfo == IF rName \in DOMAIN acc THEN acc[rName] ELSE Routine(rName, <<>>, "")
      mode == IF row.ParameterMode = "" THEN "IN" ELSE row.ParameterMode
      next == IF row.Ordinal = 0 THEN [rInfo EXCEPT !.ReturnType = row.DataType]
              ELSE IF mode \in {"IN", "INOUT"}
              THEN [rInfo EXCEPT !.Params =
                      Append(@, [Name |-> row.ParameterName, DataType |-> row.DataType,
                                 Mode |-> mode, Ordinal |-> row.Ordinal])]
              ELSE rInfo
  IN (rName :> next) @@ acc

\* for rows.Next() { ... }, from row i on.
RECURSIVE ScanRoutineRows(_, _, _, _)
ScanRoutineRows(rows, i, fail, acc) ==
  IF i > Len(rows) THEN [err |-> NoErr, routines |-> acc]
  ELSE IF fail.kind = "iteration" /\ fail.at = i THEN [err |-> NoErr, routines |-> acc]
  ELSE IF fail.kind = "scan" /\ fail.at = i
  THEN [err |-> Wrap("failed to scan routine row: ", EngineError), routines |-> acc]
  ELSE ScanRoutineRows(rows, i + 1, fail, AddMetaRow(acc, rows[i]))

\* loadRoutines: the error it returns and what it leaves in m.routines.
loadRoutines(rows, fail) ==
  IF fail.kind = "query"
  THEN [err |-> Wrap("failed to query routines: ", EngineError), routines |-> EmptyMap]
  ELSE ScanRoutineRows(rows, 1, fail, EmptyMap)

\* The tuning parameters of the URI, in the order InitConnection reads them.
TuningNames == <<"maxOpenConns", "maxIdleConns", "connMaxLifetime", "connMaxIdleTime", "timeout">>

IsDigit(c) == \E i \in 1..10 : Chars[i] = c

\* fmt's isSpace without the newline, which is an error before a number:
\* U+0009 to U+000D, the space, U+0085, U+00A0, U+1680, U+2000 to U+200A,
\* U+2028, U+2029, U+202F, U+205F, U+3000.  A character that has no
\* notation in a string is written as its code point.
SpaceChars ==
  {" ", "\t", "\r", "\f", "U+000B", "U+0085", "U+00A0", "U+1680",
   "U+2000", "U+2001", "U+2002", "U+2003", "U+2004", "U+2005", "U+2006", "U+2007",
   "U+2008", "U+2009", "U+200A", "U+2028", "U+2029", "U+202F", "U+205F", "U+3000"}

\* ss.SkipSpace
RECURSIVE SkipSpace(_)
SkipSpace(val) ==
  IF val # <<>> /\ Head(val) \in SpaceChars THEN SkipSpace(Tail(val)) ELSE val

\* ss.accept("+-"): the text after an optional sign
AfterSign(val) == IF val # <<>> /\ Head(val) \in {"+", "-"} THEN Tail(val) ELSE val

\* ss.scanNumber: the digits the text begins with
RECURSIVE LeadingDigits(_)
LeadingDigits(val) ==
  IF val # <<>> /\ IsDigit(Head(val)) THEN <<Head(val)>> \o LeadingDigits(Tail(val)) ELSE <<>>

RECURSIVE StripZeros(_)
StripZeros(digits) ==
  IF digits # <<>> /\ Head(digits) = "0" THEN StripZeros(Tail(digits)) ELSE digits

\* The digits of 1<<63 - 1 and of 1<<63
MaxInt64Digits ==
  <<"9", "2", "2", "3", "3", "7", "2", "0", "3", "6", "8", "5", "4", "7", "7", "5", "8", "0", "7">>
MinInt64Digits ==
  <<"9", "2", "2", "3", "3", "7", "2", "0", "3", "6", "8", "5", "4", "7", "7", "5", "8", "0", "8">>

\* a <= b for numbers of the same count of digits
DigitsAtMost(a, b) ==
  \/ a = b
  \/ \E i \in DOMAIN a :
       /\ \A j \in 1..(i - 1) : a[j] = b[j]
       /\ Code(a[i]) < Code(b[i])

\* strconv.ParseInt(tok, 10, 64) on a sign and digits: the value is in range
FitsInt64(negative, digits) ==
  LET d == StripZeros(digits)
      limit == IF negative THEN MinInt64Digits ELSE MaxInt64Digits
  IN Len(d) < Len(limit) \/ (Len(d) = Len(limit) /\ DigitsAtMost(d, limit))

\* fmt.Sscanf(val, "%d", &n) returns 1 and no error: after white space and
\* an optional sign val has digits, and their value fits the int; what
\* follows the digits is not read.
ScanInt(val) ==
  LET body == SkipSpace(val)
      digits == LeadingDigits(AfterSign(body))
  IN /\ digits # <<>>
     /\ FitsInt64(body # <<>> /\ Head(body) = "-", digits)

\* The first tuning parameter whose value is not a number, 0 when none.
InvalidTuning(params) ==
  LET bad == {i \in DOMAIN TuningNames :
                /\ TuningNames[i] \in DOMAIN params
                /\ params[TuningNames[i]] # <<>>
                /\ ~ScanInt(params[TuningNames[i]])}
  IN IF bad = {} THEN 0 ELSE CHOOSE i \in bad : \A j \in bad : i <= j

\* A URI: whether it starts with mysql://, whether url.Parse accepts it, and
\* its query parameters.
Uri(prefix, parses, params) == [prefix |-> prefix, parses |-> parses, params |-> params]

\* The plugin's fields InitConnection writes.
Plugin(h, rs) == [db |-> h, routines |-> rs]

\* The pool sql.Open returns: one the plugin does not point to yet.
NewPool(h) == IF h = 1 THEN 2 ELSE 1

\* InitConnection(uri): the error it returns and the plugin it leaves.
\* step is the step the environment fails ("" for none), fail the way the
\* metadata scan ends.
InitConnection(m, uri, step, rows, fail) ==
  IF ~uri.prefix THEN [err |-> NewError("invalid MySQL URI"), m |-> m]
  ELSE IF ~uri.parses THEN [err |-> Wrap("failed to parse URI: ", NewError("invalid URL")), m |-> m]
  ELSE IF InvalidTuning(uri.params) # 0
  THEN [err |-> <<"invalid ", TuningNames[InvalidTuning(uri.params)], " value: ",
                  Text(uri.params[TuningNames[InvalidTuning(uri.params)]])>>,
        m |-> m]
  ELSE IF step = "open" THEN [err |-> Wrap("failed to open MySQL: ", EngineError), m |-> m]
  ELSE IF step = "ping" THEN [err |-> Wrap("failed to ping MySQL: ", EngineError), m |-> m]
  ELSE LET m1 == [m EXCEPT !.db = NewPool(m.db)]
           load == loadRoutines(rows, fail)
           m2 == [m1 EXCEPT !.routines = load.routines]
       IN IF step = "charset"
          THEN [err |-> Wrap("failed to set charset: ", EngineError), m |-> m1]
          ELSE IF load.err # NoErr
          THEN [err |-> Wrap("failed to load routines: ", load.err), m |-> m2]
          ELSE [err |-> NoErr, m |-> m2]

\* Metadata of a function of one parameter and of a procedure of two.
FunctionRows ==
  <<MetaRow("fnName", <<>>, "varchar", "", 0),
    MetaRow("fnName", nP1, "varchar", "IN", 1)>>

ProcedureRows ==
  <<MetaRow("doSomething", nP1, "varchar", "IN", 1),
    MetaRow("doSomething", nP2, "varchar", "IN", 2)>>

InitRows == {<<>>, FunctionRows, ProcedureRows \o FunctionRows}

\* Values with a sign, white space or text after the digits, and values at
\* and past the ends of the int
SignedAndLongValues ==
  {<<"+", "5">>, <<"-", "5">>, <<" ", "5">>, <<"5", "a">>, <<"-">>, <<"+", "a">>,
   <<"U+000B", "5">>, <<"U+00A0", "-", "5">>, <<"\n", "5">>,
   MaxInt64Digits, MinInt64Digits, <<"-">> \o MinInt64Digits, <<"0", "0">> \o MaxInt64Digits,
   MaxInt64Digits \o <<"9">>}

InitUris ==
  {Uri(FALSE, TRUE, EmptyMap), Uri(TRUE, FALSE, EmptyMap), Uri(TRUE, TRUE, EmptyMap)}
  \cup {Uri(TRUE, TRUE, n :> <<"5", "0">>) : n \in {"maxOpenConns", "timeout"}}
  \cup {Uri(TRUE, TRUE, n :> <<"a", "b", "c">>) : n \in {TuningNames[i] : i \in DOMAIN TuningNames}}
  \cup {Uri(TRUE, TRUE, "maxOpenConns" :> v) : v \in SignedAndLongValues}

\* The URIs InitConnection takes to sql.Open.
GoodUri(uri) == uri.prefix /\ uri.parses /\ InvalidTuning(uri.params) = 0

LoadFailures(rows) ==
  {NoLoadFailure, LoadFailure("query", 0)}
  \cup {LoadFailure(k, i) : k \in {"scan", "iteration"}, i \in 1..Len(rows)}

\* The plugin as constructed: no pool, no catalog.
InitInit ==
  /\ handle = 0
  /\ routines = EmptyMap
  /\ cache = NoCache
  /\ boot = NoBoot
  /\ pc = [r \in Reqs |-> "idle"]
  /\ req = [r \in Reqs |-> NoInput]
  /\ conn = [r \in Reqs |-> 0]
  /\ pool = [c \in Conns |-> [inUse |-> FALSE, sess |-> FreshSession, last |-> 0]]
  /\ tx = [r \in Reqs |-> NoTx]
  /\ db = {}
  /\ ret = [r \in Reqs |-> NoRet]
  /\ seen = [r \in Reqs |-> NoSeen]
  /\ workload = NoWorkload
  /\ FnIdle

\* One call of InitConnection; fnIn keeps its inputs and the plugin before.
CallInitConnection ==
  \E uri \in InitUris, step \in {"", "open", "ping", "charset"}, rows \in InitRows :
    \E fail \in LoadFailures(rows) :
      LET before == Plugin(handle, routines)
          res == InitConnection(before, uri, step, rows, fail)
      IN /\ step # "" \/ ~GoodUri(uri) => fail = NoLoadFailure /\ rows = <<>>
         /\ ~GoodUri(uri) => step = ""
         /\ handle' = res.m.db
         /\ routines' = res.m.routines
         /\ fnIn' = [fn |-> "InitConnection", before |-> before, uri |-> uri,
                     step |-> step, rows |-> rows, fail |-> fail]
         /\ fnOut' = [fn |-> "InitConnection", err |-> res.err]
         /\ UNCHANGED <<pc, req, conn, pool, tx, db, ret, seen, workload, cache, boot>>

NextInit == CallInitConnection
SpecInit == InitInit /\ [][NextInit]_vars

\* The metadata scans: up to MaxMetaRows rows of two routines, ordered by
\* routine name and ordinal position as the query orders them.  Key k stands
\* for routine k \div 3 at ordinal position k % 3.
MetaNames == <<"fnA", "prB">>
MetaKeys == 0..(3 * Len(MetaNames) - 1)
MetaModes == {"", "IN", "INOUT", "OUT"}

MetaRowOf(k, mode) ==
  MetaRow(MetaNames[(k \div 3) + 1],
          IF k % 3 = 0 THEN <<>> ELSE <<"p", Digit(k % 3)>>,
          IF k % 3 = 2 THEN "int" ELSE "varchar",
          mode, k % 3)

MetaScans ==
  UNION {{[i \in DOMAIN ks |-> MetaRowOf(ks[i], md[ks[i]])] :
            ks \in {s \in Orders(S) : \A i, j \in DOMAIN s : i < j => s[i] < s[j]},
            md \in {f \in [S -> MetaModes] : \A k \in S : k % 3 = 0 => f[k] = ""}} :
           S \in {S \in SUBSET MetaKeys : Cardinality(S) <= MaxMetaRows}}

\* A plugin with or without an earlier catalog.
LoadInit ==
  /\ handle = 1
  /\ routines \in {EmptyMap, LoadedRoutines}
  /\ cache = NoCache
  /\ boot = NoBoot
  /\ pc = [r \in Reqs |-> "idle"]
  /\ req = [r \in Reqs |-> NoInput]
  /\ conn = [r \in Reqs |-> 0]
  /\ pool = [c \in Conns |-> [inUse |-> FALSE, sess |-> FreshSession, last |-> 0]]
  /\ tx = [r \in Reqs |-> NoTx]
  /\ db = {}
  /\ ret = [r \in Reqs |-> NoRet]
  /\ seen = [r \in Reqs |-> NoSeen]
  /\ workload = NoWorkload
  /\ FnIdle

\* One call of loadRoutines.
CallLoadRoutines ==
  /\ fnOut.fn = "none"
  /\ \E rows \in MetaScans :
       \E fail \in LoadFailures(rows) :
         LET res == loadRoutines(rows, fail)
         IN /\ routines' = res.routines
            /\ fnIn' = [fn |-> "loadRoutines", before |-> routines, rows |-> rows, fail |-> fail]
            /\ fnOut' = [fn |-> "loadRoutines", err |-> res.err]
            /\ UNCHANGED <<pc, req, conn, pool, tx, db, ret, seen, workload, handle, cache, boot>>

NextLoad == CallLoadRoutines
SpecLoad == LoadInit /\ [][NextLoad]_vars

-----------------------------------------------------------------------------
(* The cache plugin: Set and Get on the table easyrest_cache, through the   *)
(* pool of the db plugin.  Time is counted in hours.                        *)

MaxTime == 2      \* hours the clock runs
MaxTtl == 2       \* the longest time to live, in hours

CacheKeys == {"k1"}
CacheValues == {"v1", "v2"}

\* sql.ErrNoRows
ErrNoRows == NewError("sql: no rows in result set")

\* The offset of a session's time_zone from UTC, in hours.  The server's
\* own zone (SYSTEM) is taken to be UTC, the zone in which the driver writes
\* a time.Time argument.
TzOffset(tz) == IF tz = "+01:00" THEN 1 ELSE 0

\* NOW() in session sess at time t: the wall clock of the session's zone.
SessionNow(sess, t) == t + TzOffset(sess["time_zone"])

ExpiresAfterNow(expires, current) == expires > current

\* The rows of SELECT value FROM easyrest_cache WHERE `key` = ? AND
\* expires_at > NOW(), run in session sess at time t.
CacheRows(table, key, sess, t) ==
  IF key \in DOMAIN table /\ ExpiresAfterNow(table[key].expires, SessionNow(sess, t))
  THEN <<table[key].value>>
  ELSE <<>>

\* INSERT ... ON DUPLICATE KEY UPDATE value = VALUES(value), expires_at = ...
Upsert(table, key, value, expires) ==
  (key :> [value |-> value, expires |-> expires]) @@ table

\* A request context that sets the session's time zone.
cPlusOne == Ctx(kTimezone :> Str("+01:00"))

CacheWorkload ==
  [reqs |-> {1}, conns |-> Conns,
   inputs |-> {Input("TableUpdate", cPlusOne, "", EmptyMap, <<>>)}, failures |-> FALSE]

\* What the engine may answer to a statement of the cache plugin.
CacheAnswers == {NoErr, EngineError}

\* Set(key, value, ttl), up to expiresAt := time.Now().Add(ttl): the call
\* reads the process clock and goes on to wait in ExecContext.
CacheSet ==
  \E key \in CacheKeys, value \in CacheValues, ttl \in 0..MaxTtl :
    /\ cache.set = NoSet
    /\ IF handle = 0
       THEN /\ fnIn' = [fn |-> "Set", key |-> key, value |-> value, ttl |-> ttl,
                        at |-> cache.now, entry |-> <<>>]
            /\ fnOut' = [fn |-> "Set", val |-> "",
                         err |-> NewError("database connection not available for cache set")]
            /\ UNCHANGED cache
       ELSE /\ cache' = [cache EXCEPT !.set = [key |-> key, value |-> value,
                                               expires |-> cache.now + ttl, at |-> cache.now]]
            /\ UNCHANGED <<fnIn, fnOut>>
    /\ UNCHANGED <<mainVars, handle, boot>>

\* The ExecContext of a Set on a free connection of the pool: the upsert
\* with the expiry computed at the call, and the return.  fnIn keeps the
\* call: its key, value, ttl and the time it read.
CacheSetExec ==
  \E e \in CacheAnswers :
    LET call == cache.set
    IN /\ call # NoSet
       /\ FreeConns # {}
       /\ fnIn' = [fn |-> "Set", key |-> call.key, value |-> call.value,
                   ttl |-> call.expires - call.at, at |-> call.at, entry |-> <<>>]
       /\ fnOut' = [fn |-> "Set", val |-> "",
                    err |-> IF e # NoErr THEN Wrap("failed to set cache entry: ", e) ELSE NoErr]
       /\ cache' = [cache EXCEPT !.set = NoSet,
                                 !.table = IF e # NoErr THEN @
                                           ELSE Upsert(@, call.key, call.value, call.expires)]
       /\ UNCHANGED <<mainVars, handle, boot>>

\* Get(key): QueryRowContext on a free connection of the pool, then Scan.
\* fnIn keeps the entry the table held for key and the time of the call.
CacheGet ==
  \E key \in CacheKeys, c \in FreeConns, e \in CacheAnswers :
    LET rows == CacheRows(cache.table, key, pool[c].sess, cache.now)
    IN /\ fnIn' = [fn |-> "Get", key |-> key, value |-> "", ttl |-> 0, at |-> cache.now,
                   entry |-> IF key \in DOMAIN cache.table THEN <<cache.table[key]>> ELSE <<>>]
       /\ fnOut' = IF handle = 0
                   THEN [fn |-> "Get", val |-> "",
                         err |-> NewError("database connection not available for cache get")]
                   ELSE IF e # NoErr
                   THEN [fn |-> "Get", val |-> "", err |-> Wrap("failed to get cache entry: ", e)]
                   ELSE IF rows = <<>>
                   THEN [fn |-> "Get", val |-> "", err |-> ErrNoRows]
                   ELSE [fn |-> "Get", val |-> rows[1], err |-> NoErr]
       /\ UNCHANGED <<mainVars, handle, cache, boot>>

\* An hour passes.
Tick ==
  /\ cache.now < MaxTime
  /\ cache' = [cache EXCEPT !.now = @ + 1]
  /\ UNCHANGED <<mainVars, handle, boot, fnIn, fnOut>>

MaxCycles == 2    \* cleanup cycles counted

\* go p.cleanupExpiredCacheEntries(), when autoCleanup is set
StartCleanup ==
  /\ handle # 0
  /\ cache.cleaner = "off"
  /\ cache' = [cache EXCEPT !.cleaner = "on"]
  /\ UNCHANGED <<mainVars, handle, boot, fnIn, fnOut>>

ExpiredAtOrBeforeNow(expires, current) == expires <= current

CleanerStopsOnFailure(outcome) == IF outcome = "ok" THEN "on" ELSE "stopped"

\* The task after a cycle: the loop over the ticker goes on
CleanerAfterCycle(outcome) == "on"

\* The keys DELETE FROM easyrest_cache WHERE expires_at <= NOW() removes,
\* run in session sess at time t
CleanupKeys(table, sess, t) ==
  {k \in DOMAIN table : ExpiredAtOrBeforeNow(table[k].expires, SessionNow(sess, t))}

\* An entry a cycle deleted: its expiry and the time of the cycle
Deleted(entry, t) == [expires |-> entry.expires, at |-> t]

\* One cycle of cleanupExpiredCacheEntries, on a tick of its ticker: the
\* DELETE runs on a free connection of the pool; an error is printed.
CleanupCycle ==
  /\ cache.cleaner = "on"
  /\ cache.cycles < MaxCycles
  /\ IF handle = 0
     THEN cache' = [cache EXCEPT !.cycles = @ + 1,
                                 !.last = [outcome |-> "nil handle", deleted |-> {}],
                                 !.cleaner = CleanerAfterCycle("nil handle")]
     ELSE \E c \in FreeConns, e \in CacheAnswers :
            LET gone == IF e = NoErr THEN CleanupKeys(cache.table, pool[c].sess, cache.now) ELSE {}
                outcome == IF e = NoErr THEN "ok" ELSE "failed"
            IN cache' = [cache EXCEPT !.cycles = @ + 1,
                                      !.table = [k \in DOMAIN cache.table \ gone |-> cache.table[k]],
                                      !.last = [outcome |-> outcome,
                                                deleted |-> {Deleted(cache.table[k], cache.now) : k \in gone}],
                                      !.cleaner = CleanerAfterCycle(outcome)]
  /\ UNCHANGED <<mainVars, handle, boot, fnIn, fnOut>>

NextCache == MainNext \/ CacheSet \/ CacheSetExec \/ CacheGet \/ Tick

InitCache == MainInit /\ workload = CacheWorkload /\ FnIdle
SpecCache == InitCache /\ [][NextCache]_vars

\* The cleanup task next to Set calls and to reads that set the session's
\* time zone
CleanupWorkload ==
  [reqs |-> {1}, conns |-> Conns,
   inputs |-> {Input("TableGet", cPlusOne, "", EmptyMap, <<>>)}, failures |-> FALSE]

ReadNext == \E r \in Reqs : Call(r) \/ Acquire(r) \/ Inject(r) \/ Operation(r)

NextCleanup == ReadNext \/ CacheSet \/ CacheSetExec \/ StartCleanup \/ CleanupCycle

InitCleanup == MainInit /\ workload = CleanupWorkload /\ FnIdle
SpecCleanup == InitCleanup /\ [][NextCleanup]_vars

\* The ticker fires for as long as the process lives.
SpecCleanupFair == SpecCleanup /\ WF_vars(CleanupCycle)

-----------------------------------------------------------------------------
(* The two InitConnection calls of the host on the plugin instance main     *)
(* shares between the db plugin and the cache plugin                        *)

BootPlugins == {"db", "cache"}

\* mysqlPlugin.InitConnection returns e in the call of p: the db plugin
\* hands it to the host; the cache plugin wraps an error and goes on to
\* its table when there is none.
UnderlyingReturns(b, p, e) ==
  IF p = "db" THEN [b EXCEPT !.pc[p] = "done", !.err[p] = e]
  ELSE IF e # NoErr
  THEN [b EXCEPT !.pc[p] = "done",
                 !.err[p] = Wrap("failed to initialize underlying db connection for cache: ", e)]
  ELSE [b EXCEPT !.pc[p] = "table"]

\* The host calls InitConnection of plugin p.
HostCalls(p) ==
  /\ boot.pc[p] = "idle"
  /\ boot' = [boot EXCEPT !.pc[p] = IF p = "cache" THEN "check" ELSE "open"]
  /\ UNCHANGED <<mainVars, handle, cache, fnIn, fnOut>>

\* if p.dbPluginPointer.db == nil { p.dbPluginPointer.InitConnection(uri) }
CacheChecksHandle ==
  /\ boot.pc["cache"] = "check"
  /\ boot' = [boot EXCEPT !.pc["cache"] = IF handle = 0 THEN "open" ELSE "table"]
  /\ UNCHANGED <<mainVars, handle, cache, fnIn, fnOut>>

\* openDB and PingContext: a pool of its own, held in a local variable.
OpenPool(p) ==
  /\ boot.pc[p] = "open"
  /\ \E step \in {"", "open", "ping"} :
       boot' = IF step = "open"
               THEN UnderlyingReturns(boot, p, Wrap("failed to open MySQL: ", EngineError))
               ELSE IF step = "ping"
               THEN UnderlyingReturns([boot EXCEPT !.opened = @ + 1], p,
                                      Wrap("failed to ping MySQL: ", EngineError))
               ELSE [boot EXCEPT !.opened = @ + 1, !.local[p] = boot.opened + 1,
                                 !.pc[p] = "assign"]
  /\ UNCHANGED <<mainVars, handle, cache, fnIn, fnOut>>

\* m.db = db, over whatever m.db pointed to, then SET NAMES on it.
AssignHandle(p) ==
  /\ boot.pc[p] = "assign"
  /\ handle' = boot.local[p]
  /\ \E e \in {NoErr, EngineError} :
       LET b == [boot EXCEPT !.replaced = @ + (IF handle # 0 THEN 1 ELSE 0)]
       IN boot' = IF e # NoErr
                  THEN UnderlyingReturns(b, p, Wrap("failed to set charset: ", e))
                  ELSE [b EXCEPT !.pc[p] = "load"]
  /\ UNCHANGED <<mainVars, cache, fnIn, fnOut>>

\* The metadata rows the server holds while the plugins start
BootRows == FunctionRows

\* loadRoutines returns e in the call of p
LoadReturns(b, p, e) ==
  UnderlyingReturns([b EXCEPT !.at[p] = 0, !.fail[p] = NoLoadFailure, !.info[p] = EmptyMap], p,
                    IF e # NoErr THEN Wrap("failed to load routines: ", e) ELSE NoErr)

\* m.routines = make(map[string]RoutineInfo)
LoadReset(p) ==
  /\ boot.pc[p] = "load"
  /\ routines' = EmptyMap
  /\ boot' = [boot EXCEPT !.loads = @ + 1, !.pc[p] = "query"]
  /\ UNCHANGED <<pc, req, conn, pool, tx, db, ret, seen, workload, handle, cache, fnIn, fnOut>>

\* rows, err := m.db.Query(query); fail is how this cursor will end
LoadQuery(p) ==
  /\ boot.pc[p] = "query"
  /\ \E fail \in LoadFailures(BootRows) :
       boot' = IF fail.kind = "query"
               THEN LoadReturns(boot, p, Wrap("failed to query routines: ", EngineError))
               ELSE [boot EXCEPT !.pc[p] = "rows", !.at[p] = 1, !.fail[p] = fail]
  /\ UNCHANGED <<mainVars, handle, cache, fnIn, fnOut>>

\* rows.Next(), rows.Scan and rInfo, ok := m.routines[rName]
LoadRowRead(p) ==
  /\ boot.pc[p] = "rows"
  /\ LET i == boot.at[p]
         fail == boot.fail[p]
     IN boot' = IF i > Len(BootRows) THEN LoadReturns(boot, p, NoErr)
                ELSE IF fail.kind = "iteration" /\ fail.at = i THEN LoadReturns(boot, p, NoErr)
                ELSE IF fail.kind = "scan" /\ fail.at = i
                THEN LoadReturns(boot, p, Wrap("failed to scan routine row: ", EngineError))
                ELSE LET rName == BootRows[i].SpecificName
                     IN [boot EXCEPT !.pc[p] = "write",
                                     !.info[p] = IF rName \in DOMAIN routines
                                                 THEN rName :> routines[rName]
                                                 ELSE EmptyMap]
  /\ UNCHANGED <<mainVars, handle, cache, fnIn, fnOut>>

\* m.routines[rName] = rInfo, into the map m.routines points to by now
LoadRowWrite(p) ==
  /\ boot.pc[p] = "write"
  /\ LET row == BootRows[boot.at[p]]
         rName == row.SpecificName
     IN routines' = (rName :> AddMetaRow(boot.info[p], row)[rName]) @@ routines
  /\ boot' = [boot EXCEPT !.pc[p] = "rows", !.at[p] = @ + 1, !.info[p] = EmptyMap]
  /\ UNCHANGED <<pc, req, conn, pool, tx, db, ret, seen, workload, handle, cache, fnIn, fnOut>>

\* Two loops on the one map with no lock: when a write meets a read or a
\* write of the other call the runtime may end the process (fatal error:
\* concurrent map writes, concurrent map read and map write).
ConcurrentMapAccess ==
  /\ \E p \in BootPlugins : \E q \in BootPlugins \ {p} :
       boot.pc[p] = "write" /\ boot.pc[q] \in {"rows", "write"}
  /\ boot' = [boot EXCEPT !.pc = [r \in BootPlugins |-> "crashed"]]
  /\ UNCHANGED <<mainVars, handle, cache, fnIn, fnOut>>

\* The second look at the handle, CREATE TABLE IF NOT EXISTS easyrest_cache,
\* and the cleanup task when the URI asks for it.
CreateCacheTable ==
  /\ boot.pc["cache"] = "table"
  /\ IF handle = 0
     THEN /\ boot' = [boot EXCEPT !.pc["cache"] = "done",
                                  !.err["cache"] = NewError("database connection not available for cache plugin")]
          /\ UNCHANGED cache
     ELSE \E e \in CacheAnswers, autoCleanup \in BOOLEAN :
            /\ boot' = [boot EXCEPT !.pc["cache"] = "done",
                                    !.err["cache"] = IF e # NoErr
                                                     THEN Wrap("failed to create cache table: ", e)
                                                     ELSE NoErr]
            /\ cache' = IF e = NoErr /\ autoCleanup THEN [cache EXCEPT !.cleaner = "on"] ELSE cache
  /\ UNCHANGED <<mainVars, handle, fnIn, fnOut>>

NextBoot ==
  \/ \E p \in BootPlugins : HostCalls(p) \/ OpenPool(p) \/ AssignHandle(p)
  \/ \E p \in BootPlugins : LoadReset(p) \/ LoadQuery(p) \/ LoadRowRead(p) \/ LoadRowWrite(p)
  \/ ConcurrentMapAccess
  \/ CacheChecksHandle
  \/ CreateCacheTable

SpecBoot == InitInit /\ [][NextBoot]_vars

-----------------------------------------------------------------------------
(* scanRows: the rows of a cursor as maps from column name to value.  A     *)
(* text is the sequence of its characters.                                  *)

MaxScanRows == 2     \* rows of a cursor

\* Go values: string, int64, float64, bool, nil, []any, []byte, time.Time
Float(n) == [t |-> "float64", v |-> n]
Bool(b) == [t |-> "bool", v |-> b]
Nil == [t |-> "nil", v |-> 0]
List(l) == [t |-> "list", v |-> l]
Bytes(b) == [t |-> "bytes", v |-> b]
Time(y, mo, d, h, mi, sec, ns) ==
  [t |-> "time", v |-> [year |-> y, month |-> mo, day |-> d,
                        hour |-> h, minute |-> mi, second |-> sec, nano |-> ns]]

DigitChars == {Chars[i] : i \in 1..10}

DigitVal(c) == Code(c) - 1

\* The decimal digits of n, padded with zeros to the given width
RECURSIVE Padded(_, _)
Padded(n, width) ==
  IF width = 0 THEN <<>> ELSE Padded(n \div 10, width - 1) \o <<Digit(n % 10)>>

\* t.Format("2006-01-02")
FormatDate(tm) == Padded(tm.year, 4) \o <<"-">> \o Padded(tm.month, 2) \o <<"-">> \o Padded(tm.day, 2)

\* t.Format("2006-01-02 15:04:05")
FormatDateTime(tm) ==
  FormatDate(tm) \o <<" ">> \o Padded(tm.hour, 2) \o <<":">> \o Padded(tm.minute, 2)
                 \o <<":">> \o Padded(tm.second, 2)

IsMidnight(tm) == tm.hour = 0 /\ tm.minute = 0 /\ tm.second = 0 /\ tm.nano = 0

\* json.Unmarshal of github.com/goccy/go-json on texts without white space,
\* fractions, exponents or escapes: the literals, integers, strings, and
\* arrays of those. Its number decoder takes the run of digits that follows
\* an optional minus sign and converts it with strconv.ParseFloat, so a run
\* that starts with zeros is accepted too: "07" decodes to 7. A run whose
\* value rounds to no float64 is a range error of ParseFloat and decodes to
\* nothing. The values of the model are those of runs of at most nine
\* significant digits, which a float64 holds exactly.

\* The digits of 1<<1024 - 1<<970 - 1, the largest integer that rounds to a
\* float64 (to math.MaxFloat64)
MaxFloat64Digits ==
  << "1", "7", "9", "7", "6", "9", "3", "1", "3", "4", "8", "6", "2", "3", "1", "5", "8", "0", "7", "9", "3", "7", "2", "8", "9",
     "7", "1", "4", "0", "5", "3", "0", "3", "4", "1", "5", "0", "7", "9", "9", "3", "4", "1", "3", "2", "7", "1", "0", "0", "3",
     "7", "8", "2", "6", "9", "3", "6", "1", "7", "3", "7", "7", "8", "9", "8", "0", "4", "4", "4", "9", "6", "8", "2", "9", "2",
     "7", "6", "4", "7", "5", "0", "9", "4", "6", "6", "4", "9", "0", "1", "7", "9", "7", "7", "5", "8", "7", "2", "0", "7", "0",
     "9", "6", "3", "3", "0", "2", "8", "6", "4", "1", "6", "6", "9", "2", "8", "8", "7", "9", "1", "0", "9", "4", "6", "5", "5",
     "5", "5", "4", "7", "8", "5", "1", "9", "4", "0", "4", "0", "2", "6", "3", "0", "6", "5", "7", "4", "8", "8", "6", "7", "1",
     "5", "0", "5", "8", "2", "0", "6", "8", "1", "9", "0", "8", "9", "0", "2", "0", "0", "0", "7", "0", "8", "3", "8", "3", "6",
     "7", "6", "2", "7", "3", "8", "5", "4", "8", "4", "5", "8", "1", "7", "7", "1", "1", "5", "3", "1", "7", "6", "4", "4", "7",
     "5", "7", "3", "0", "2", "7", "0", "0", "6", "9", "8", "5", "5", "5", "7", "1", "3", "6", "6", "9", "5", "9", "6", "2", "2",
     "8", "4", "2", "9", "1", "4", "8", "1", "9", "8", "6", "0", "8", "3", "4", "9", "3", "6", "4", "7", "5", "2", "9", "2", "7",
     "1", "9", "0", "7", "4", "1", "6", "8", "4", "4", "4", "3", "6", "5", "5", "1", "0", "7", "0", "4", "3", "4", "2", "7", "1",
     "1", "5", "5", "9", "6", "9", "9", "5", "0", "8", "0", "9", "3", "0", "4", "2", "8", "8", "0", "1", "7", "7", "9", "0", "4",
     "1", "7", "4", "4", "9", "7", "7", "9", "1" >>

\* strconv.ParseFloat(digits, 64) returns no range error
FitsFloat64(digits) ==
  LET d == StripZeros(digits)
  IN Len(d) < Len(MaxFloat64Digits)
       \/ (Len(d) = Len(MaxFloat64Digits) /\ DigitsAtMost(d, MaxFloat64Digits))

IsNatural(b) ==
  /\ Len(b) >= 1
  /\ \A i \in DOMAIN b : b[i] \in DigitChars
  /\ FitsFloat64(b)

RECURSIVE NatVal(_)
NatVal(b) == IF b = <<>> THEN 0 ELSE NatVal(SubSeq(b, 1, Len(b) - 1)) * 10 + DigitVal(b[Len(b)])

IsJsonString(b) ==
  /\ Len(b) >= 2
  /\ b[1] = "\"" /\ b[Len(b)] = "\""
  /\ \A i \in 2..(Len(b) - 1) : b[i] \notin {"\"", "\\"}

IsJsonScalar(b) ==
  \/ b \in {<<"n", "u", "l", "l">>, <<"t", "r", "u", "e">>, <<"f", "a", "l", "s", "e">>}
  \/ IsNatural(b)
  \/ Len(b) >= 2 /\ b[1] = "-" /\ IsNatural(Tail(b))
  \/ IsJsonString(b)

JsonScalar(b) ==
  IF b = <<"n", "u", "l", "l">> THEN Nil
  ELSE IF b = <<"t", "r", "u", "e">> THEN Bool(TRUE)
  ELSE IF b = <<"f", "a", "l", "s", "e">> THEN Bool(FALSE)
  ELSE IF IsNatural(b) THEN Float(NatVal(b))
  ELSE IF b[1] = "-" THEN Float(0 - NatVal(Tail(b)))
  ELSE Str(SubSeq(b, 2, Len(b) - 1))

\* The pieces of b between the commas (no string of the model holds one)
RECURSIVE Split(_, _)
Split(b, piece) ==
  IF b = <<>> THEN <<piece>>
  ELSE IF Head(b) = "," THEN <<piece>> \o Split(Tail(b), <<>>)
  ELSE Split(Tail(b), Append(piece, Head(b)))

IsJsonArray(b) ==
  /\ Len(b) >= 2
  /\ b[1] = "[" /\ b[Len(b)] = "]"
  /\ \/ Len(b) = 2
     \/ LET items == Split(SubSeq(b, 2, Len(b) - 1), <<>>)
        IN \A i \in DOMAIN items : IsJsonScalar(items[i])

JsonValid(b) == IsJsonScalar(b) \/ IsJsonArray(b)

\* json.Unmarshal(b, &jsonData) for a valid text
JsonDecode(b) ==
  IF IsJsonScalar(b) THEN JsonScalar(b)
  ELSE IF Len(b) = 2 THEN List(<<>>)
  ELSE LET items == Split(SubSeq(b, 2, Len(b) - 1), <<>>)
       IN List([i \in DOMAIN items |-> JsonScalar(items[i])])

\* What scanRows stores for one scanned value
NormalizeValue(val) ==
  IF val.t = "time"
  THEN IF IsMidnight(val.v) THEN Str(FormatDate(val.v)) ELSE Str(FormatDateTime(val.v))
  ELSE IF val.t = "bytes"
  THEN IF JsonValid(val.v) THEN JsonDecode(val.v) ELSE Str(val.v)
  ELSE val

\* rowMap after the loop over cols: a later column of the same name wins
RowMap(cols, columns) ==
  [c \in {cols[i] : i \in DOMAIN cols} |->
     NormalizeValue(columns[CHOOSE i \in DOMAIN cols :
                              cols[i] = c /\ \A j \in DOMAIN cols : cols[j] = c => j <= i])]

\* A cursor: its columns, its rows, and where it fails if it does
\* ("columns": Columns(); "scan": Scan() of row at; "iteration": Next() stops
\* after at rows and Err() reports it).
NoScanFailure == [kind |-> "", at |-> 0]
ScanFailure(kind, at) == [kind |-> kind, at |-> at]
Cursor(cols, rows, fail) == [cols |-> cols, rows |-> rows, fail |-> fail]

NilRows == [isNil |-> TRUE, list |-> <<>>]
RowList(list) == [isNil |-> FALSE, list |-> list]

FailedScanKeepingRows(results, prefix) ==
  [rows |-> RowList(results), err |-> Wrap(prefix, EngineError)]

\* return nil, fmt.Errorf(prefix + "%w", err)
FailedScan(results, prefix) == [rows |-> NilRows, err |-> Wrap(prefix, EngineError)]

\* for r.Next() { ... }, then r.Err()
RECURSIVE ScanLoop(_, _, _)
ScanLoop(cur, i, results) ==
  IF i > Len(cur.rows) \/ (cur.fail.kind = "iteration" /\ i > cur.fail.at)
  THEN IF cur.fail.kind = "iteration"
       THEN FailedScan(results, "row iteration error: ")
       ELSE [rows |-> RowList(results), err |-> NoErr]
  ELSE IF cur.fail.kind = "scan" /\ cur.fail.at = i
  THEN FailedScan(results, "failed to scan row: ")
  ELSE ScanLoop(cur, i + 1, Append(results, RowMap(cur.cols, cur.rows[i])))

scanRows(cur) ==
  IF cur.fail.kind = "columns"
  THEN FailedScan(<<>>, "failed to get columns: ")
  ELSE ScanLoop(cur, 1, <<>>)

\* Column names
colA == <<"a">>
colB == <<"b">>

\* The texts a byte column may hold
\* Runs of digits with no float64 value: nines, one digit more than the
\* largest integer that has one, and the integer that follows that one
LongRun == [i \in 1..(Len(MaxFloat64Digits) + 1) |-> "9"]
FirstOverflow == [MaxFloat64Digits EXCEPT ![Len(MaxFloat64Digits)] = "2"]

ByteTexts ==
  { <<>>, <<"a", "b">>, <<"1", "2", "3">>, <<"0", "7">>, <<"-", "5">>,
    <<"t", "r", "u", "e">>, <<"n", "u", "l", "l">>, <<"\"", "x", "\"">>,
    <<"[", "1", ",", "2", "]">>, LongRun, FirstOverflow }

ClockTimes == { <<0, 0, 0, 0>>, <<0, 0, 0, 1>>, <<0, 0, 1, 0>>, <<0, 1, 0, 0>>,
                <<1, 0, 0, 0>>, <<13, 45, 59, 0>> }

DriverValues ==
  {Bytes(b) : b \in ByteTexts}
    \cup {Time(2024, 1, 2, c[1], c[2], c[3], c[4]) : c \in ClockTimes}
    \cup {Num(7), Nil}

RowsOf(width) ==
  UNION {[1..n -> [1..width -> DriverValues]] : n \in 0..MaxScanRows}

ScanFailures(rows) ==
  {NoScanFailure, ScanFailure("columns", 0)}
    \cup {ScanFailure("scan", i) : i \in DOMAIN rows}
    \cup {ScanFailure("iteration", i) : i \in 0..Len(rows)}

TwoColumnRows ==
  { <<>>, << <<Bytes(<<"1", "2", "3">>), Time(2024, 1, 2, 0, 0, 0, 0)>> >>,
    << <<Num(7), Bytes(<<"a", "b">>)>>, <<Nil, Time(2024, 1, 2, 13, 45, 59, 0)>> >> }

Cursors ==
  UNION {{Cursor(<<colA>>, rows, fail) : fail \in ScanFailures(rows)} : rows \in RowsOf(1)}
    \cup UNION {{Cursor(<<colA, colB>>, rows, fail) : fail \in ScanFailures(rows)} : rows \in TwoColumnRows}

\* What a column holds for a supplied value, and what the driver scans from
\* it into an `any`: a text column comes back as bytes, an integer column as
\* an int64.
Fetched(val) == IF val.t = "string" THEN Bytes(val.v) ELSE val

SuppliedValues == {Str(b) : b \in ByteTexts} \cup {Num(7)}

SuppliedRows == UNION {[ks -> SuppliedValues] : ks \in {{colA}, {colA, colB}}}

\* The cursor of a TableGet whose filter matches the one row that a
\* committed TableCreate inserted from the supplied row.
StoredCursor(row) ==
  LET cols == SortStrings(CHOOSE o \in Orders(DOMAIN row) : TRUE)
  IN Cursor(cols, << [i \in DOMAIN cols |-> Fetched(row[cols[i]])] >>, NoScanFailure)

ScanInputs ==
  {[fn |-> "scanRows", cur |-> cur] : cur \in Cursors}
    \cup {[fn |-> "RoundTrip", row |-> row] : row \in SuppliedRows}

InitScan ==
  /\ MainInit
  /\ workload = NoWorkload
  /\ fnIn \in ScanInputs
  /\ fnOut = [fn |-> "none"]

ApplyScanRows ==
  /\ fnIn.fn = "scanRows"
  /\ fnOut.fn = "none"
  /\ fnOut' = [fn |-> "scanRows", res |-> scanRows(fnIn.cur)]
  /\ UNCHANGED <<mainVars, fnIn, auxVars>>

\* TableCreate of one row, committed, then TableGet of that row
CreateThenGet ==
  /\ fnIn.fn = "RoundTrip"
  /\ fnOut.fn = "none"
  /\ fnOut' = [fn |-> "RoundTrip", res |-> scanRows(StoredCursor(fnIn.row))]
  /\ UNCHANGED <<mainVars, fnIn, auxVars>>

NextScan == ApplyScanRows \/ CreateThenGet
SpecScan == InitScan /\ [][NextScan]_vars

-----------------------------------------------------------------------------
(* Filters, convertILIKEtoLower and the statement of TableGet.  A filter is *)
(* a map from field to condition: a value, or a map from operator to        *)
(* operand.  Fields, operators and string operands are character sequences. *)

MaxLimit == 2      \* the largest limit and offset
MaxListLen == 2    \* the longest list of select, group-by or ordering items

opILIKE == <<"I", "L", "I", "K", "E">>
opIlike == <<"i", "l", "i", "k", "e">>
opLIKE == <<"L", "I", "K", "E">>
opEq == <<"=">>

fName == <<"n", "a", "m", "e">>
fStatus == <<"s", "t", "a", "t", "u", "s">>

\* strings.ToLower; a character that is no letter stays
ToLower(b) ==
  [i \in DOMAIN b |-> IF \E k \in DOMAIN Chars : Chars[k] = b[i] THEN LowerChar(b[i]) ELSE b[i]]

\* fmt.Sprintf("LOWER(%s)", field)
LowerFieldKey(field) == <<"L", "O", "W", "E", "R", "(">> \o field \o <<")">>

\* result[key] = value
Put(m, key, value) == (key :> value) @@ m

\* The loop over the operators of one condition map, in the order ops.
\* st holds result, newConditions and foundILIKE.
RECURSIVE OperatorLoop(_, _, _, _)
OperatorLoop(field, conditionMap, ops, st) ==
  IF ops = <<>> THEN st
  ELSE LET op == Head(ops)
           operand == conditionMap[op]
           next ==
             IF EqualFold(op, opILIKE)
             THEN IF operand.t = "string"
                  THEN [st EXCEPT !.result = Put(@, LowerFieldKey(field),
                                                 MapOf(opLIKE :> Str(ToLower(operand.v)))),
                                  !.found = TRUE]
                  ELSE [st EXCEPT !.newConditions = Put(@, op, operand)]
             ELSE [st EXCEPT !.newConditions = Put(@, op, operand)]
       IN OperatorLoop(field, conditionMap, Tail(ops), next)

\* The body of the loop over the fields, for one field
ConvertField(result, field, condition, ops) ==
  IF condition.t = "map"
  THEN LET st == OperatorLoop(field, condition.v, ops,
                              [result |-> result, newConditions |-> EmptyMap, found |-> FALSE])
       IN IF st.newConditions # EmptyMap
          THEN Put(st.result, field, MapOf(st.newConditions))
          ELSE IF ~st.found THEN Put(st.result, field, condition)
          ELSE st.result
  ELSE Put(result, field, condition)

RECURSIVE FieldLoop(_, _, _, _)
FieldLoop(where, fields, opOrder, result) ==
  IF fields = <<>> THEN result
  ELSE FieldLoop(where, Tail(fields), opOrder,
                 ConvertField(result, Head(fields), where[Head(fields)], opOrder[Head(fields)]))

\* convertILIKEtoLower(where), the maps iterated in the orders given:
\* fieldOrder lists the fields, opOrder[field] the operators of a field.
convertILIKEtoLower(where, fieldOrder, opOrder) ==
  IF where.isNil THEN NilCtx
  ELSE Ctx(FieldLoop(where.kv, fieldOrder, opOrder, EmptyMap))

\* Condition maps: any of ILIKE, ilike and = with these operands
OperandsOf(op) ==
  IF op = opILIKE THEN {Str(<<"A", "%">>), Num(5)}
  ELSE IF op = opIlike THEN {Str(<<"B", "%">>)}
  ELSE {Str(<<"x">>)}

ConditionMaps ==
  UNION {{m \in [ops -> UNION {OperandsOf(op) : op \in ops}] :
            \A op \in ops : m[op] \in OperandsOf(op)} : ops \in SUBSET {opILIKE, opIlike, opEq}}

NameConditions == {Str(<<"x">>)} \cup {MapOf(m) : m \in ConditionMaps}

LowerConditions == {Str(<<"y">>), MapOf(opEq :> Str(<<"y">>))}

Filters ==
  {NilCtx, Ctx(EmptyMap)}
    \cup {Ctx(fName :> c) : c \in NameConditions}
    \cup {Ctx(LowerFieldKey(fName) :> c) : c \in LowerConditions}
    \cup {Ctx((fName :> c) @@ (LowerFieldKey(fName) :> d)) : c \in NameConditions, d \in LowerConditions}

\* The orders in which the operators of each map condition may be iterated
OpOrders(kv) ==
  {o \in [DOMAIN kv -> UNION {Orders(DOMAIN kv[f].v) : f \in {g \in DOMAIN kv : kv[g].t = "map"}}
                         \cup {<<>>}] :
     \A f \in DOMAIN kv : IF kv[f].t = "map" THEN o[f] \in Orders(DOMAIN kv[f].v) ELSE o[f] = <<>>}

ConvertInputs ==
  UNION {{[fn |-> "convertILIKEtoLower", where |-> w, fieldOrder |-> fo, opOrder |-> oo] :
            fo \in Orders(DOMAIN w.kv), oo \in OpOrders(w.kv)} : w \in Filters}

\* The conditions easyrest.BuildWhereClauseSorted renders for the fields in
\* sorted order: "<field> <op> ?" for each operator of a condition map in
\* sorted order, "<field> = ?" for a plain value.
RECURSIVE OperatorConditions(_, _, _)
OperatorConditions(field, conditionMap, ops) ==
  IF ops = <<>> THEN <<>>
  ELSE <<[text |-> Text(field) \o " " \o Text(Head(ops)) \o " ?", arg |-> conditionMap[Head(ops)]]>>
         \o OperatorConditions(field, conditionMap, Tail(ops))

RECURSIVE FieldConditions(_, _)
FieldConditions(kv, fields) ==
  IF fields = <<>> THEN <<>>
  ELSE LET field == Head(fields)
           own == IF kv[field].t = "map"
                  THEN OperatorConditions(field, kv[field].v,
                                          SortStrings(CHOOSE o \in Orders(DOMAIN kv[field].v) : TRUE))
                  ELSE <<[text |-> Text(field) \o " = ?", arg |-> kv[field]]>>
       IN own \o FieldConditions(kv, Tail(fields))

\* easyrest.BuildWhereClauseSorted: nothing for an empty filter
BuildWhereClauseSorted(where) ==
  IF where.isNil \/ where.kv = EmptyMap
  THEN [conditions |-> "", args |-> <<>>]
  ELSE LET conds == FieldConditions(where.kv, SortStrings(CHOOSE o \in Orders(DOMAIN where.kv) : TRUE))
       IN [conditions |-> Join([i \in DOMAIN conds |-> conds[i].text], " AND "),
           args |-> [i \in DOMAIN conds |-> conds[i].arg]]

\* The clauses of the statement, each a keyword and what follows it
Clause(kw, body) == <<[kw |-> kw, body |-> body]>>

SelectClause(selectFields) ==
  Clause("SELECT ", IF Len(selectFields) > 0 THEN Join(selectFields, ", ") ELSE "*")

FromClause(table) == Clause(" FROM ", table)

WhereClause(conditions) == IF conditions # "" THEN Clause(" WHERE ", conditions) ELSE <<>>

GroupByClause(groupBy) == IF Len(groupBy) > 0 THEN Clause(" GROUP BY ", Join(groupBy, ", ")) ELSE <<>>

OrderByClause(ordering) == IF Len(ordering) > 0 THEN Clause(" ORDER BY ", Join(ordering, ", ")) ELSE <<>>

LimitClauseNonNegative(limit) == IF limit >= 0 THEN Clause(" LIMIT ", IntToString(limit)) ELSE <<>>

LimitClause(limit) == IF limit > 0 THEN Clause(" LIMIT ", IntToString(limit)) ELSE <<>>

OffsetClause(offset) == IF offset > 0 THEN Clause(" OFFSET ", IntToString(offset)) ELSE <<>>

\* query.String()
RECURSIVE QueryText(_)
QueryText(clauses) ==
  IF clauses = <<>> THEN "" ELSE Head(clauses).kw \o Head(clauses).body \o QueryText(Tail(clauses))

\* The statement TableGet builds and its arguments.  The filters drawn for
\* it hold one field with one operator, which leaves one iteration order.
TableGetStatement(table, selectFields, where, ordering, groupBy, limit, offset) ==
  LET processedWhere ==
        IF where.isNil THEN NilCtx
        ELSE convertILIKEtoLower(where, CHOOSE o \in Orders(DOMAIN where.kv) : TRUE,
                                 [f \in DOMAIN where.kv |->
                                    IF where.kv[f].t = "map"
                                    THEN CHOOSE o \in Orders(DOMAIN where.kv[f].v) : TRUE
                                    ELSE <<>>])
      built == BuildWhereClauseSorted(processedWhere)
      clauses == SelectClause(selectFields) \o FromClause(table) \o WhereClause(built.conditions)
                   \o GroupByClause(groupBy) \o OrderByClause(ordering)
                   \o LimitClause(limit) \o OffsetClause(offset)
  IN [clauses |-> clauses, query |-> QueryText(clauses), args |-> built.args]

ListsOf(items) == UNION {[1..n -> items] : n \in 0..MaxListLen}

GetFilters ==
  {NilCtx, Ctx(EmptyMap), Ctx(fStatus :> Str(<<"o", "n">>)),
   Ctx(fName :> MapOf(opILIKE :> Str(<<"A", "%">>)))}

TableGetInputs ==
  {[fn |-> "TableGet", table |-> "users", selectFields |-> sf, where |-> w, ordering |-> od,
    groupBy |-> gb, limit |-> l, offset |-> o] :
     sf \in ListsOf({"id", "name"}), w \in GetFilters, od \in ListsOf({"id DESC", "name"}),
     gb \in ListsOf({"name"}), l \in (-1)..MaxLimit, o \in (-1)..MaxLimit}

InitFilter ==
  /\ MainInit
  /\ workload = NoWorkload
  /\ fnIn \in ConvertInputs \cup TableGetInputs
  /\ fnOut = [fn |-> "none"]

ApplyConvertILIKEtoLower ==
  /\ fnIn.fn = "convertILIKEtoLower"
  /\ fnOut.fn = "none"
  /\ fnOut' = [fn |-> "convertILIKEtoLower",
               result |-> convertILIKEtoLower(fnIn.where, fnIn.fieldOrder, fnIn.opOrder)]
  /\ UNCHANGED <<mainVars, fnIn, auxVars>>

BuildTableGet ==
  /\ fnIn.fn = "TableGet"
  /\ fnOut.fn = "none"
  /\ fnOut' = [fn |-> "TableGet",
               stmt |-> TableGetStatement(fnIn.table, fnIn.selectFields, fnIn.where,
                                          fnIn.ordering, fnIn.groupBy, fnIn.limit, fnIn.offset)]
  /\ UNCHANGED <<mainVars, fnIn, auxVars>>

NextFilter == ApplyConvertILIKEtoLower \/ BuildTableGet
SpecFilter == InitFilter /\ [][NextFilter]_vars

-----------------------------------------------------------------------------
(* The schema: mapMySQLType and buildTableSchema                            *)

MaxColumns == 2     \* columns of a table

\* unicode.ToUpper on an ASCII character
UpperChar(c) ==
  IF Code(c) \in Code("a")..Code("z") THEN Chars[Code(c) - Code("a") + Code("A")] ELSE c

\* strings.ToUpper; a character that is no letter stays
ToUpper(b) ==
  [i \in DOMAIN b |-> IF \E k \in DOMAIN Chars : Chars[k] = b[i] THEN UpperChar(b[i]) ELSE b[i]]

\* strings.Contains
HasSubstring(b, sub) ==
  \E i \in 0..(Len(b) - Len(sub)) : SubSeq(b, i + 1, i + Len(sub)) = sub

mapMySQLType(dt) ==
  LET up == ToUpper(dt)
  IN IF HasSubstring(up, <<"I", "N", "T">>) THEN "integer"
     ELSE IF HasSubstring(up, <<"C", "H", "A", "R">>) \/ HasSubstring(up, <<"T", "E", "X", "T">>)
     THEN "string"
     ELSE IF HasSubstring(up, <<"B", "L", "O", "B">>) THEN "string"
     ELSE IF \/ HasSubstring(up, <<"F", "L", "O", "A", "T">>)
             \/ HasSubstring(up, <<"D", "O", "U", "B", "L", "E">>)
             \/ HasSubstring(up, <<"D", "E", "C">>)
             \/ HasSubstring(up, <<"R", "E", "A", "L">>)
     THEN "number"
     ELSE "string"

\* The type names of the README's mapping table with the schema type it
\* lists for each
ReadmeTable ==
  {
    [name |-> <<"I", "N", "T">>, type |-> "integer"],
    [name |-> <<"T", "I", "N", "Y", "I", "N", "T">>, type |-> "integer"],
    [name |-> <<"B", "I", "G", "I", "N", "T">>, type |-> "integer"],
    [name |-> <<"D", "E", "C", "I", "M", "A", "L">>, type |-> "number"],
    [name |-> <<"N", "U", "M", "E", "R", "I", "C">>, type |-> "number"],
    [name |-> <<"F", "L", "O", "A", "T">>, type |-> "number"],
    [name |-> <<"D", "O", "U", "B", "L", "E">>, type |-> "number"],
    [name |-> <<"V", "A", "R", "C", "H", "A", "R">>, type |-> "string"],
    [name |-> <<"C", "H", "A", "R">>, type |-> "string"],
    [name |-> <<"T", "E", "X", "T">>, type |-> "string"],
    [name |-> <<"E", "N", "U", "M">>, type |-> "string"],
    [name |-> <<"J", "S", "O", "N">>, type |-> "string"],
    [name |-> <<"B", "L", "O", "B">>, type |-> "string"],
    [name |-> <<"B", "I", "N", "A", "R", "Y">>, type |-> "string"],
    [name |-> <<"V", "A", "R", "B", "I", "N", "A", "R", "Y">>, type |-> "string"],
    [name |-> <<"D", "A", "T", "E">>, type |-> "string"],
    [name |-> <<"D", "A", "T", "E", "T", "I", "M", "E">>, type |-> "string"],
    [name |-> <<"T", "I", "M", "E", "S", "T", "A", "M", "P">>, type |-> "string"],
    [name |-> <<"T", "I", "M", "E">>, type |-> "string"],
    [name |-> <<"B", "O", "O", "L", "E", "A", "N">>, type |-> "integer"],
    [name |-> <<"B", "O", "O", "L">>, type |-> "integer"]
  }

OtherTypeNames ==
  { <<>>,
    <<"i", "n", "t">>,
    <<"v", "a", "r", "c", "h", "a", "r">>,
    <<"d", "e", "c", "i", "m", "a", "l">>,
    <<"t", "i", "n", "y", "i", "n", "t">>,
    <<"P", "O", "I", "N", "T">>,
    <<"R", "E", "A", "L">>,
    <<"Y", "E", "A", "R">>,
    <<"B", "I", "T">>,
    <<"S", "E", "T">>,
    <<"D", "o", "u", "b", "l", "e">>,
    <<"m", "e", "d", "i", "u", "m", "t", "e", "x", "t">>,
    <<"l", "o", "n", "g", "b", "l", "o", "b">>,
    <<"d", "a", "t", "e", "t", "i", "m", "e">>,
    <<"s", "m", "a", "l", "l", "i", "n", "t">>,
    <<"t", "i", "m", "e", "s", "t", "a", "m", "p">>,
    <<"n", "u", "m", "e", "r", "i", "c">>,
    <<"b", "o", "o", "l", "e", "a", "n">>
  }

TypeNames == {r.name : r \in ReadmeTable} \cup OtherTypeNames

\* A row of INFORMATION_SCHEMA.COLUMNS: COLUMN_NAME, DATA_TYPE, IS_NULLABLE,
\* whether COLUMN_DEFAULT is not NULL, COLUMN_KEY
ColumnRow(name, dt, nullable, hasDefault, key) ==
  [name |-> name, dt |-> dt, nullable |-> nullable, hasDefault |-> hasDefault, key |-> key]

sPRI == <<"P", "R", "I">>
sYES == <<"Y", "E", "S">>
sNO == <<"N", "O">>

IsPri(col) == ToUpper(col.key) = sPRI

IsRequiredIgnoringDefault(col) == ~IsPri(col) /\ ToUpper(col.nullable) = sNO

\* The column is appended to required
IsRequired(col) == ~IsPri(col) /\ ToUpper(col.nullable) = sNO /\ ~col.hasDefault

\* prop: "type" always, "x-nullable" and "readOnly" only when set
ColumnProp(col) ==
  [type |-> mapMySQLType(col.dt),
   xNullable |-> ToUpper(col.nullable) = sYES,
   readOnly |-> IsPri(col)]

NilSchema == [isNil |-> TRUE, properties |-> <<>>, required |-> <<>>, hasRequired |-> FALSE]

\* for rows.Next() { ... } of buildTableSchema, then the schema map
RECURSIVE ColumnLoop(_, _, _, _, _)
ColumnLoop(cols, i, fail, properties, required) ==
  IF i > Len(cols)
  THEN [schema |-> [isNil |-> FALSE, properties |-> properties, required |-> required,
                    hasRequired |-> Len(required) > 0],
        err |-> NoErr]
  ELSE IF fail.kind = "scan" /\ fail.at = i
  THEN [schema |-> NilSchema, err |-> EngineError]
  ELSE ColumnLoop(cols, i + 1, fail,
                  (cols[i].name :> ColumnProp(cols[i])) @@ properties,
                  IF IsRequired(cols[i]) THEN Append(required, cols[i].name) ELSE required)

buildTableSchema(cols, fail) ==
  IF fail.kind = "query"
  THEN [schema |-> NilSchema, err |-> EngineError]
  ELSE ColumnLoop(cols, 1, fail, <<>>, <<>>)

ColumnNames == <<"id", "note", "qty", "tag">>

ColumnShapes ==
  [dt : {<<"i", "n", "t">>, <<"v", "a", "r", "c", "h", "a", "r">>},
   nullable : {sYES, sNO}, hasDefault : BOOLEAN,
   key : {sPRI, <<"p", "r", "i">>, <<>>, <<"U", "N", "I">>}]

\* Tables of up to MaxColumns columns with distinct names
TableColumns ==
  UNION {{[i \in 1..n |-> ColumnRow(ColumnNames[i], sh[i].dt, sh[i].nullable,
                                     sh[i].hasDefault, sh[i].key)] :
            sh \in [1..n -> ColumnShapes]} : n \in 0..MaxColumns}

SchemaFailures(cols) ==
  {NoLoadFailure, LoadFailure("query", 0)} \cup {LoadFailure("scan", i) : i \in DOMAIN cols}

SchemaInputs ==
  {[fn |-> "mapMySQLType", dt |-> dt] : dt \in TypeNames}
    \cup {[fn |-> "buildTableSchema", cols |-> cols, fail |-> NoLoadFailure] : cols \in TableColumns}
    \cup UNION {{[fn |-> "buildTableSchema", cols |-> cols, fail |-> fail] :
                   fail \in SchemaFailures(cols)} : cols \in {c \in TableColumns : Len(c) <= 1}}

InitSchema ==
  /\ MainInit
  /\ workload = NoWorkload
  /\ fnIn \in SchemaInputs
  /\ fnOut = [fn |-> "none"]

ApplyMapMySQLType ==
  /\ fnIn.fn = "mapMySQLType"
  /\ fnOut.fn = "none"
  /\ fnOut' = [fn |-> "mapMySQLType", type |-> mapMySQLType(fnIn.dt)]
  /\ UNCHANGED <<mainVars, fnIn, auxVars>>

ApplyBuildTableSchema ==
  /\ fnIn.fn = "buildTableSchema"
  /\ fnOut.fn = "none"
  /\ fnOut' = [fn |-> "buildTableSchema", res |-> buildTableSchema(fnIn.cols, fnIn.fail)]
  /\ UNCHANGED <<mainVars, fnIn, auxVars>>

NextSchema == ApplyMapMySQLType \/ ApplyBuildTableSchema
SpecSchema == InitSchema /\ [][NextSchema]_vars

-----------------------------------------------------------------------------
(* Properties of the transaction coordinator (SpecTx)                       *)

\* The call of request r has executed a return statement.
Returned(r) == pc[r] \in {"done", "closing"}

\* The writes of r's call that the database holds.
Persisted(r) == {e \in db : e[1] = r}

\* C1: once a mutating call has executed its return statement, the
\* transaction it began has been committed or rolled back: it is not open.
C1_NoOpenTxAtReturn ==
  \A r \in Reqs :
    Returned(r) /\ req[r].op \in Mutating => tx[r].state # "open"

\* C3, as the spec has it: under the preference "rollback", when the operation
\* succeeds, the transaction is rolled back, nothing persists and the caller
\* receives no error, with 0 for TableUpdate and TableDelete, the input rows
\* for TableCreate and the scanned rows for CallFunction.
RollbackPreferred(r) ==
  /\ Returned(r)
  /\ req[r].op \in Mutating
  /\ tx[r].pref = "rollback"
  /\ seen[r].op = "ok"

\* What the caller is to receive after a preferred rollback.
RollbackValue(r) ==
  CASE req[r].op \in {"TableUpdate", "TableDelete"} -> IntVal(0)
    [] req[r].op = "TableCreate" -> RowsVal(req[r].rows)
    [] req[r].op = "CallFunction" -> tx[r].result

C3_RollbackNeverFails ==
  \A r \in Reqs :
    RollbackPreferred(r) =>
      /\ tx[r].state = "rolledback"
      /\ Persisted(r) = {}
      /\ ret[r].err = NoErr
      /\ ret[r].val = RollbackValue(r)

\* C3, amended: under the preference "rollback", when the operation succeeds,
\* the transaction is rolled back and nothing persists; the caller receives
\* either the rollback's own failure, wrapped as "failed to rollback
\* transaction: ", or no error and 0 for TableUpdate and TableDelete, the
\* input rows for TableCreate, the scanned rows for CallFunction.
C3_RollbackPreference ==
  \A r \in Reqs :
    RollbackPreferred(r) =>
      /\ tx[r].state = "rolledback"
      /\ Persisted(r) = {}
      /\ \/ /\ ret[r].err # NoErr
            /\ Head(ret[r].err) = "failed to rollback transaction: "
            /\ Contains(ret[r].err, EngineError[1])
         \/ /\ ret[r].err = NoErr
            /\ ret[r].val = RollbackValue(r)

\* An update that reported one affected row was rolled back by preference and
\* returned 0 without an error.
C3_Witness ==
  \E r \in Reqs :
    /\ RollbackPreferred(r)
    /\ req[r].op = "TableUpdate"
    /\ tx[r].result = IntVal(1)
    /\ ret[r] = [val |-> IntVal(0), err |-> NoErr]

\* C4: when a statement of a mutating operation fails inside its transaction,
\* the transaction is rolled back and never committed, no write of the call
\* persists, and the error returned contains the engine's error text.
StatementFailed(r) ==
  /\ Returned(r)
  /\ req[r].op \in Mutating
  /\ seen[r].op = "failed"

C4_StatementFailureRollsBack ==
  \A r \in Reqs :
    StatementFailed(r) =>
      /\ tx[r].state = "rolledback"
      /\ ~Contains(seen[r].log, "Commit")
      /\ Persisted(r) = {}
      /\ Contains(ret[r].err, EngineError[1])

\* A routine call whose CALL statement failed with an engine error.
C4_Witness ==
  \E r \in Reqs :
    /\ StatementFailed(r)
    /\ req[r].op = "CallFunction"
    /\ Contains(seen[r].log, "CALL doSomething(?, ?)")
    /\ ret[r].err = <<"failed to call routine: ", "stored procedure error">>

\* C5: every call that takes a connection from the pool gives it back.
C5_EveryConnectionReleased ==
  \A r \in Reqs : (conn[r] # 0) ~> (conn[r] = 0)

-----------------------------------------------------------------------------
(* Properties of concurrent requests on the shared pool (Spec)              *)

\* The session variables the context of a request sets.
OwnVars(ctx) ==
  IF ctx.isNil \/ ~Formattable(ctx.kv) THEN {}
  ELSE {"@erctx_" \o Text(k) : k \in DOMAIN FormatToContext(ctx.kv)}
       \cup {"@request_" \o Text(k) : k \in DOMAIN FormatToContext(ctx.kv)}
       \cup (IF HasTimezone(ctx.kv) THEN {"time_zone"} ELSE {})

\* C2: the session a request's main statement runs in holds no variable but
\* those of the request's own context: no @erctx_ or @request_ variable and
\* no time_zone setting of an earlier request on the same connection.
C2_NoLeftoverSessionVariables ==
  \A r \in Reqs :
    \A v \in DOMAIN seen[r].sess :
      \/ v \in OwnVars(req[r].ctx)
      \/ v = "time_zone" /\ seen[r].sess[v] = FreshSession[v]

\* The session sess holds the values of the context ctx under its variables.
SeesOwnContext(sess, ctx) ==
  LET flat == FormatToContext(ctx.kv)
  IN /\ \A k \in DOMAIN flat :
          \A v \in {"@erctx_" \o Text(k), "@request_" \o Text(k)} :
            v \in DOMAIN sess /\ sess[v] = flat[k]
     /\ HasTimezone(ctx.kv) =>
          "time_zone" \in DOMAIN sess /\ sess["time_zone"] = ctx.kv[kTimezone].v

\* C6: two calls never hold the same connection; between a request's
\* injection and its main statement the last statement on its connection is
\* its own; and the session its main statement ran in holds the values of
\* its own context.
C6_MainStatementSeesOwnContext ==
  /\ \A r1, r2 \in Reqs : r1 # r2 /\ conn[r1] # 0 => conn[r1] # conn[r2]
  /\ \A r \in Reqs :
       /\ pc[r] = "op" /\ OwnVars(req[r].ctx) # {} => pool[conn[r]].last = r
       /\ seen[r].sess # <<>> /\ OwnVars(req[r].ctx) # {} =>
            SeesOwnContext(seen[r].sess, req[r].ctx)

\* Two requests with different contexts were in flight together, and the
\* main statement of one ran on a connection the other had used before.
C6_Witness ==
  \E r1, r2 \in Reqs :
    /\ r1 # r2
    /\ req[r1].ctx = cAlice /\ req[r2].ctx = cBobUTC
    /\ pc[r1] = "end" /\ pc[r2] = "op"
    /\ "@erctx_timezone" \in DOMAIN seen[r1].sess
    /\ seen[r1].sess["@erctx_claim"] = "Alice"

-----------------------------------------------------------------------------
(* Properties of CallFunction                                               *)

\* Some declared parameter has no argument, or some argument no declared
\* parameter, names compared without regard to case.
InvalidArgs(params, data) ==
  \/ \E i \in DOMAIN params : ~\E k \in DOMAIN data : EqualFold(k, params[i].Name)
  \/ \E k \in DOMAIN data : ~\E i \in DOMAIN params : EqualFold(k, params[i].Name)

\* C7: a CallFunction whose arguments lack a declared parameter, or hold a
\* key that matches none, has returned a validation error, with no connection
\* taken, no transaction begun, no database call made, nothing written and
\* the catalog as it was loaded.
C7_ValidationBeforeDatabase ==
  \A r \in Reqs :
    /\ req[r].op = "CallFunction"
    /\ req[r].funcName \in DOMAIN routines
    /\ InvalidArgs(routines[req[r].funcName].Params, req[r].data)
    => /\ pc[r] = "done"
       /\ ret[r].val = NilVal
       /\ ret[r].err # NoErr
       /\ Head(ret[r].err) \in {"missing required argument: ", "unexpected argument: "}
       /\ seen[r].log = <<>>
       /\ conn[r] = 0
       /\ tx[r].state = "none"
       /\ Persisted(r) = {}
       /\ \A c \in Conns : ~pool[c].inUse
       /\ routines = LoadedRoutines

\* A call with an argument that matches no parameter was rejected after an
\* earlier call had committed a write, which is still there.
C7_Witness ==
  \E r \in Reqs :
    /\ req[r].op = "CallFunction"
    /\ nZz \in DOMAIN req[r].data
    /\ pc[r] = "done"
    /\ ret[r].err = <<"unexpected argument: ", "zz">>
    /\ db = {OldWrite}

\* The keys of data are the names of params up to letter case, one for one.
SameNamesIgnoringCase(params, data) ==
  /\ Cardinality(DOMAIN data) = Len(params)
  /\ \A i \in DOMAIN params : \E k \in DOMAIN data : EqualFold(k, params[i].Name)
  /\ \A k \in DOMAIN data : \E i \in DOMAIN params : EqualFold(k, params[i].Name)

\* C8: arguments whose names equal the declared parameter names up to letter
\* case pass validation, and arguments that pass validation are as many as
\* the declared parameters.
C8_CaseInsensitiveValidation ==
  fnOut.fn = "CallFunction" /\ fnOut.plan.found =>
    LET params == fnIn.catalog[fnIn.funcName].Params
    IN /\ SameNamesIgnoringCase(params, fnIn.data) => fnOut.plan.err = NoErr
       /\ fnOut.plan.err = NoErr => Cardinality(DOMAIN fnIn.data) = Len(params)

\* The parameter declared at ordinal position i.
ParamAt(params, i) == CHOOSE j \in DOMAIN params : params[j].Ordinal = i

\* C9: a call that passes validation renders SELECT name(?, ...) AS result
\* for a routine with a return type and CALL name(?, ...) for one without,
\* with one placeholder per declared parameter, and binds the caller's values
\* in ascending ordinal position, however the catalog stores the parameters
\* and however the argument map is iterated.
C9_CallRendering ==
  fnOut.fn = "CallFunction" /\ fnOut.plan.found /\ fnOut.plan.err = NoErr =>
    LET rInfo == fnIn.catalog[fnIn.funcName]
        n == Len(rInfo.Params)
        marks == Join([i \in 1..n |-> "?"], ", ")
    IN /\ fnOut.plan.query =
            IF rInfo.ReturnType # ""
            THEN "SELECT " \o fnIn.funcName \o "(" \o marks \o ") AS result"
            ELSE "CALL " \o fnIn.funcName \o "(" \o marks \o ")"
       /\ fnOut.plan.args =
            [i \in 1..n |-> fnIn.data[rInfo.Params[ParamAt(rInfo.Params, i)].Name]]

\* A function of three parameters, stored last parameter first, was rendered
\* as a SELECT with its arguments in ordinal order.
C9_Witness ==
  /\ fnOut.fn = "CallFunction"
  /\ fnOut.plan.found
  /\ fnOut.plan.err = NoErr
  /\ Len(fnIn.catalog[fnIn.funcName].Params) = 3
  /\ fnIn.catalog[fnIn.funcName].Params[1].Ordinal = 3
  /\ fnIn.catalog[fnIn.funcName].ReturnType = "varchar"
  /\ fnIn.order[1] = nP3
  /\ fnOut.plan.query = "SELECT rName(?, ?, ?) AS result"
  /\ fnOut.plan.args = <<"val_p1", "val_p2", "val_p3">>

-----------------------------------------------------------------------------
(* Properties of injectContext                                              *)

\* The keys of S in ascending order.
Ascending(S) ==
  CHOOSE s \in Orders(S) : \A i, j \in DOMAIN s : i < j => StrLess(s[i], s[j])

\* C10: for a context whose flattened map is not empty, injectContext issues
\* one SET statement: the pairs @erctx_<k> = ?, @request_<k> = ? in ascending
\* order of k, then time_zone = ? exactly when the context has a non-empty
\* string under timezone; the arguments are each key's value twice, in the
\* same order, then the time zone.  Neither depends on the iteration order.
\* For an empty flattened map it issues nothing.
C10_SetStatement ==
  fnOut.fn = "injectContext" =>
    LET flat == FormatToContext(fnIn.ctx.kv)
        keys == Ascending(DOMAIN flat)
        tz == HasTimezone(fnIn.ctx.kv)
        pairs == [i \in DOMAIN keys |->
                    "@erctx_" \o Text(keys[i]) \o " = ?, @request_" \o Text(keys[i]) \o " = ?"]
    IN IF DOMAIN flat = {} THEN fnOut.res.stmts = <<>>
       ELSE /\ Len(fnOut.res.stmts) = 1
            /\ fnOut.res.stmts[1].text =
                 "SET " \o Join(pairs \o (IF tz THEN <<"time_zone = ?">> ELSE <<>>), ", ")
            /\ fnOut.res.stmts[1].args =
                 [i \in 1..(2 * Len(keys)) |-> flat[keys[(i + 1) \div 2]]]
                   \o (IF tz THEN <<fnIn.ctx.kv[kTimezone].v>> ELSE <<>>)

\* The context {token, timezone: "UTC"}, iterated token first, gave the
\* statement with timezone first and the trailing time_zone.
C10_Witness ==
  /\ fnOut.fn = "injectContext"
  /\ fnIn.order = <<kToken, kTimezone>>
  /\ fnOut.res.stmts[1].text =
       "SET @erctx_timezone = ?, @request_timezone = ?, @erctx_token = ?, @request_token = ?, time_zone = ?"
  /\ fnOut.res.stmts[1].args = <<"UTC", "UTC", "val_token", "val_token", "UTC">>

-----------------------------------------------------------------------------
(* Properties of TableCreate                                                *)

\* The INSERT statements among the database calls of request r.
InsertsOf(r) == SelectSeq(seen[r].log, LAMBDA e : e \in {"INSERT row1", "INSERT row2"})

\* One INSERT for each of the first n rows, in their order.
FirstInserts(rows, n) == [i \in 1..n |-> "INSERT " \o rows[i]]

CreateReturned(r) == Returned(r) /\ req[r].op = "TableCreate" /\ seen[r].op # ""

\* C11, as the spec has it: TableCreate runs one INSERT per row, in input
\* order, in one transaction; when an INSERT fails nothing persists and no
\* rows are returned; when all succeed under the preference commit, every row
\* persists and the input rows are returned.
C11_AllInsertsThenPersisted ==
  \A r \in Reqs :
    CreateReturned(r) =>
      /\ seen[r].op = "failed" =>
           Persisted(r) = {} /\ ret[r].val = NilVal /\ ret[r].err # NoErr
      /\ seen[r].op = "ok" /\ tx[r].pref = "commit" =>
           /\ InsertsOf(r) = FirstInserts(req[r].rows, Len(req[r].rows))
           /\ Persisted(r) = {<<r, i>> : i \in 1..Len(req[r].rows)}
           /\ ret[r] = [val |-> RowsVal(req[r].rows), err |-> NoErr]

\* C11, amended: TableCreate runs one INSERT per row, in input order, up to
\* the first that fails, all in one transaction.  When an INSERT fails the
\* transaction is rolled back, nothing persists and no rows are returned.
\* When all succeed under the preference commit and the commit succeeds,
\* every row persists and the input rows are returned in order; when the
\* commit fails nothing persists and an error is returned with no rows.
C11_CreateIsAtomic ==
  \A r \in Reqs :
    CreateReturned(r) =>
      /\ Len(SelectSeq(seen[r].log, LAMBDA e : e = "BeginTx")) = 1
      /\ \E n \in 1..Len(req[r].rows) : InsertsOf(r) = FirstInserts(req[r].rows, n)
      /\ seen[r].op = "failed" =>
           /\ tx[r].state = "rolledback"
           /\ Persisted(r) = {} /\ ret[r].val = NilVal /\ ret[r].err # NoErr
      /\ seen[r].op = "ok" /\ tx[r].pref = "commit" =>
           /\ InsertsOf(r) = FirstInserts(req[r].rows, Len(req[r].rows))
           /\ \/ /\ tx[r].state = "committed"
                 /\ Persisted(r) = {<<r, i>> : i \in 1..Len(req[r].rows)}
                 /\ ret[r] = [val |-> RowsVal(req[r].rows), err |-> NoErr]
              \/ /\ tx[r].state # "committed"
                 /\ Persisted(r) = {}
                 /\ ret[r].val = NilVal
                 /\ Head(ret[r].err) = "failed to commit transaction: "

\* A create of two rows whose second INSERT failed: the first row's INSERT
\* had run, and nothing persisted.
C11_Witness ==
  \E r \in Reqs :
    /\ CreateReturned(r)
    /\ seen[r].op = "failed"
    /\ InsertsOf(r) = <<"INSERT row1", "INSERT row2">>
    /\ tx[r].pending = {<<r, 1>>}
    /\ Persisted(r) = {}

-----------------------------------------------------------------------------
(* Properties of InitConnection and loadRoutines                            *)

\* C12: an InitConnection that returned an error left the connection handle
\* and the routine catalog what they were before the call.
C12_FailedInitLeavesNoState ==
  fnOut.fn = "InitConnection" /\ fnOut.err # NoErr =>
    handle = fnIn.before.db /\ routines = fnIn.before.routines

\* The rows of routine name that become parameters: ordinal at least 1 and
\* mode IN, INOUT or unspecified.
ParameterRows(rows, name) ==
  SelectSeq(rows, LAMBDA row : /\ row.SpecificName = name
                               /\ row.Ordinal >= 1
                               /\ row.ParameterMode \in {"", "IN", "INOUT"})

ReturnRows(rows, name) ==
  SelectSeq(rows, LAMBDA row : row.SpecificName = name /\ row.Ordinal = 0)

\* C18: after a successful loadRoutines the catalog holds exactly the
\* routines named in the scan; each has the data type of its row at ordinal 0
\* as return type (none without such a row), and as parameters its rows at
\* ordinal 1 and up of mode IN, INOUT or unspecified (recorded as IN), in
\* ascending ordinal order; OUT rows are no parameters.
C18_CatalogFromRows ==
  fnOut.fn = "loadRoutines" /\ fnOut.err = NoErr /\ fnIn.fail = NoLoadFailure =>
    /\ DOMAIN routines = {fnIn.rows[i].SpecificName : i \in DOMAIN fnIn.rows}
    /\ \A name \in DOMAIN routines :
         LET prs == ParameterRows(fnIn.rows, name)
             rts == ReturnRows(fnIn.rows, name)
             ps == routines[name].Params
         IN /\ routines[name].Name = name
            /\ routines[name].ReturnType = (IF rts = <<>> THEN "" ELSE rts[1].DataType)
            /\ Len(ps) = Len(prs)
            /\ \A i \in DOMAIN ps :
                 /\ ps[i].Name = prs[i].ParameterName
                 /\ ps[i].DataType = prs[i].DataType
                 /\ ps[i].Ordinal = prs[i].Ordinal
                 /\ ps[i].Mode = (IF prs[i].ParameterMode = "" THEN "IN" ELSE prs[i].ParameterMode)
            /\ \A i, j \in DOMAIN ps : i < j => ps[i].Ordinal < ps[j].Ordinal

\* A scan of a function with an OUT parameter between its return row and an
\* INOUT parameter replaced an earlier catalog: the old routines are gone,
\* the OUT row is no parameter.
C18_Witness ==
  /\ fnOut.fn = "loadRoutines"
  /\ fnOut.err = NoErr
  /\ fnIn.fail = NoLoadFailure
  /\ fnIn.before = LoadedRoutines
  /\ fnIn.rows = <<MetaRowOf(0, ""), MetaRowOf(1, "OUT"), MetaRowOf(2, "INOUT")>>
  /\ routines = ("fnA" :> Routine("fnA", <<[Name |-> <<"p", "2">>, DataType |-> "int",
                                            Mode |-> "INOUT", Ordinal |-> 2]>>, "varchar"))

\* What loadRoutines makes of the metadata of the two routines is the catalog
\* the calls of the other specifications start from.
LoadedRoutinesAreLoaded ==
  loadRoutines(ProcedureRows \o FunctionRows, NoLoadFailure).routines = LoadedRoutines

\* C13: no step of any operation changes the routine catalog: its routines,
\* their parameters, return types and stored parameter order stay as loaded,
\* also while several calls of one routine are under way.
C13_CatalogUnchanged == [][routines' = routines]_vars

\* Two calls of the same routine are under way at once, each in its own
\* transaction, and the catalog is as loaded.
C13_Witness ==
  \E r1, r2 \in Reqs :
    /\ r1 # r2
    /\ req[r1].op = "CallFunction" /\ req[r2].op = "CallFunction"
    /\ req[r1].funcName = "doSomething" /\ req[r2].funcName = "doSomething"
    /\ req[r1].data = ArgsBoth /\ req[r2].data = ArgsBoth
    /\ pc[r1] = "end" /\ pc[r2] = "op"
    /\ routines = LoadedRoutines

-----------------------------------------------------------------------------
(* Properties of the cache                                                  *)

\* The last Get did not fail in the database.
GetAnswered == fnOut.fn = "Get" /\ (fnOut.err = NoErr \/ fnOut.err = ErrNoRows)

\* C14: a Get the database answered returns the value of the latest
\* successful Set of its key when that entry expires strictly after the time
\* of the Get, and the not-found signal otherwise; the not-found signal is
\* not the wrapped error of a failed query.
C14_GetReturnsUnexpiredValue ==
  /\ GetAnswered =>
       IF fnIn.entry # <<>> /\ fnIn.entry[1].expires > fnIn.at
       THEN fnOut.err = NoErr /\ fnOut.val = fnIn.entry[1].value
       ELSE fnOut.err = ErrNoRows /\ fnOut.val = ""
  /\ fnOut.fn = "Get" /\ ~GetAnswered =>
       Head(fnOut.err) = "failed to get cache entry: " /\ fnOut.err # ErrNoRows

-----------------------------------------------------------------------------
(* Properties of scanRows                                                   *)

\* C15: a row read back after its insert was committed holds, for every
\* field supplied, the value supplied, also for strings whose text is valid
\* JSON.
C15_RoundTrip ==
  fnOut.fn = "RoundTrip" =>
    /\ fnOut.res.err = NoErr
    /\ Len(fnOut.res.rows.list) = 1
    /\ \A k \in DOMAIN fnIn.row : fnOut.res.rows.list[1][k] = fnIn.row[k]

\* JSON as RFC 8259 defines it, on texts without white space, fractions,
\* exponents or escapes. An integer of more than one digit does not start
\* with a zero; a parser may limit the range of numbers (section 6), here to
\* those with a float64 value, the only number an untyped Go value holds.
Rfc8259Int(b) ==
  /\ Len(b) >= 1
  /\ \A i \in DOMAIN b : b[i] \in {"0", "1", "2", "3", "4", "5", "6", "7", "8", "9"}
  /\ Len(b) > 1 => b[1] # "0"
  /\ \/ Len(b) < Len(MaxFloat64Digits)
     \/ Len(b) = Len(MaxFloat64Digits) /\ DigitsAtMost(b, MaxFloat64Digits)

Rfc8259Number(b) ==
  \/ Rfc8259Int(b)
  \/ Len(b) >= 2 /\ b[1] = "-" /\ Rfc8259Int(Tail(b))

Rfc8259String(b) ==
  /\ Len(b) >= 2
  /\ b[1] = "\"" /\ b[Len(b)] = "\""
  /\ \A i \in 2..(Len(b) - 1) : b[i] \notin {"\"", "\\"}

Rfc8259Literal(b) ==
  b \in {<<"n", "u", "l", "l">>, <<"t", "r", "u", "e">>, <<"f", "a", "l", "s", "e">>}

Rfc8259Scalar(b) == Rfc8259Literal(b) \/ Rfc8259Number(b) \/ Rfc8259String(b)

RECURSIVE DecimalValue(_, _)
DecimalValue(b, acc) ==
  IF b = <<>> THEN acc
  ELSE DecimalValue(Tail(b), acc * 10 +
         (CHOOSE d \in 0..9 : Head(b) = <<"0", "1", "2", "3", "4", "5", "6", "7", "8", "9">>[d + 1]))

Rfc8259ScalarValue(b) ==
  CASE b = <<"n", "u", "l", "l">> -> Nil
    [] b = <<"t", "r", "u", "e">> -> Bool(TRUE)
    [] b = <<"f", "a", "l", "s", "e">> -> Bool(FALSE)
    [] Rfc8259Int(b) -> Float(DecimalValue(b, 0))
    [] Rfc8259Number(b) /\ ~Rfc8259Int(b) -> Float(0 - DecimalValue(Tail(b), 0))
    [] Rfc8259String(b) -> Str(SubSeq(b, 2, Len(b) - 1))

Rfc8259Items(b) == Split(SubSeq(b, 2, Len(b) - 1), <<>>)

Rfc8259Array(b) ==
  /\ Len(b) >= 2
  /\ b[1] = "[" /\ b[Len(b)] = "]"
  /\ Len(b) > 2 => \A i \in DOMAIN Rfc8259Items(b) : Rfc8259Scalar(Rfc8259Items(b)[i])

ParsesAsJson(b) == Rfc8259Scalar(b) \/ Rfc8259Array(b)

\* The structure a JSON text stands for
Rfc8259Value(b) ==
  IF Rfc8259Scalar(b) THEN Rfc8259ScalarValue(b)
  ELSE IF Len(b) = 2 THEN List(<<>>)
  ELSE List([i \in DOMAIN Rfc8259Items(b) |-> Rfc8259ScalarValue(Rfc8259Items(b)[i])])

\* The value the normalisation rule gives for a scanned value
Rendered(val) ==
  IF val.t = "time"
  THEN IF val.v.hour = 0 /\ val.v.minute = 0 /\ val.v.second = 0 /\ val.v.nano = 0
       THEN Str(FormatDate(val.v))
       ELSE Str(FormatDateTime(val.v))
  ELSE IF val.t = "bytes"
  THEN IF ParsesAsJson(val.v) THEN Rfc8259Value(val.v) ELSE Str(val.v)
  ELSE val

\* C16: a scan that succeeds yields one row map per cursor row, in cursor
\* order, each column holding its value rendered by the rule: midnight as a
\* date, other times as date and time, bytes that parse as JSON as the
\* structure they stand for and other bytes as their text, anything else as
\* it is.
C16_Normalization ==
  fnOut.fn = "scanRows" /\ fnOut.res.err = NoErr =>
    LET cur == fnIn.cur
        out == fnOut.res.rows.list
    IN /\ Len(out) = Len(cur.rows)
       /\ \A i \in DOMAIN cur.rows :
            /\ DOMAIN out[i] = {cur.cols[j] : j \in DOMAIN cur.cols}
            /\ \A j \in DOMAIN cur.cols : out[i][cur.cols[j]] = Rendered(cur.rows[i][j])

\* C17: when the columns cannot be read, a row cannot be scanned or the
\* cursor ends in an error, scanRows returns that error and no rows.
C17_NoPartialRows ==
  fnOut.fn = "scanRows" =>
    /\ fnIn.cur.fail # NoScanFailure <=> fnOut.res.err # NoErr
    /\ fnOut.res.err # NoErr =>
         /\ fnOut.res.rows = NilRows
         /\ Head(fnOut.res.err) =
              (CASE fnIn.cur.fail.kind = "columns" -> "failed to get columns: "
                 [] fnIn.cur.fail.kind = "scan" -> "failed to scan row: "
                 [] fnIn.cur.fail.kind = "iteration" -> "row iteration error: ")

\* The second row of a cursor failed to scan after the first was read.
C17_Witness ==
  /\ fnOut.fn = "scanRows"
  /\ fnIn.cur.fail = ScanFailure("scan", 2)
  /\ fnOut.res.rows = NilRows
  /\ fnOut.res.err = <<"failed to scan row: ", "stored procedure error">>

-----------------------------------------------------------------------------
(* Properties of the filter rewrite and of the statement of TableGet        *)

\* C19: the statement of TableGet holds its clauses in the order SELECT,
\* FROM, WHERE, GROUP BY, ORDER BY, LIMIT, OFFSET; SELECT lists `*` when no
\* field is given; WHERE, GROUP BY and ORDER BY are left out exactly when the
\* filter or list is empty, LIMIT and OFFSET exactly when the number is not
\* positive.
C19_ClauseOrder ==
  fnOut.fn = "TableGet" =>
    LET Present(kw) ==
          CASE kw = " WHERE " -> ~fnIn.where.isNil /\ fnIn.where.kv # EmptyMap
            [] kw = " GROUP BY " -> fnIn.groupBy # <<>>
            [] kw = " ORDER BY " -> fnIn.ordering # <<>>
            [] kw = " LIMIT " -> fnIn.limit >= 1
            [] kw = " OFFSET " -> fnIn.offset >= 1
            [] OTHER -> TRUE
        expected == SelectSeq(<<"SELECT ", " FROM ", " WHERE ", " GROUP BY ", " ORDER BY ",
                                " LIMIT ", " OFFSET ">>, Present)
        clauses == fnOut.stmt.clauses
    IN /\ [i \in DOMAIN clauses |-> clauses[i].kw] = expected
       /\ clauses[1].body = "*" <=> fnIn.selectFields = <<>>
       /\ clauses[2].body = fnIn.table
       /\ fnOut.stmt.query = QueryText(clauses)

\* The statement built from fields, an empty filter, a group-by, an
\* ordering, a limit and an offset.
C19_Witness ==
  /\ fnOut.fn = "TableGet"
  /\ fnIn.where = Ctx(EmptyMap)
  /\ fnOut.stmt.query = "SELECT id, name FROM users GROUP BY name ORDER BY id DESC LIMIT 2 OFFSET 1"

\* A statement with a filter and a limit only.
C19_WhereOnly ==
  /\ fnOut.fn = "TableGet"
  /\ fnOut.stmt.query = "SELECT * FROM users WHERE LOWER(name) LIKE ? LIMIT 1"
  /\ fnOut.stmt.args = <<Str(<<"a", "%">>)>>

\* C20: in the result, every condition whose operator is ILIKE in any letter
\* case and whose operand is a string stands as LIKE with the lower-cased
\* operand under LOWER(<field>); every other operator of a condition map and
\* every condition that is no map stands unchanged under its field.
C20_IlikeRewritten ==
  fnOut.fn = "convertILIKEtoLower" /\ ~fnIn.where.isNil =>
    LET kv == fnIn.where.kv
        out == fnOut.result.kv
    IN \A field \in DOMAIN kv :
         IF kv[field].t = "map"
         THEN \A op \in DOMAIN kv[field].v :
                LET operand == kv[field].v[op]
                IN IF EqualFold(op, opILIKE) /\ operand.t = "string"
                   THEN /\ LowerFieldKey(field) \in DOMAIN out
                        /\ out[LowerFieldKey(field)] = MapOf(opLIKE :> Str(ToLower(operand.v)))
                   ELSE /\ field \in DOMAIN out
                        /\ out[field].t = "map"
                        /\ op \in DOMAIN out[field].v
                        /\ out[field].v[op] = operand
         ELSE field \in DOMAIN out /\ out[field] = kv[field]

-----------------------------------------------------------------------------
(* Properties of the schema                                                 *)

\* C21: mapMySQLType answers integer, number or string for every type name,
\* and for each type name of the README's table the schema type listed there.
C21_ReadmeMapping ==
  fnOut.fn = "mapMySQLType" =>
    /\ fnOut.type \in {"integer", "number", "string"}
    /\ \A r \in ReadmeTable : r.name = fnIn.dt => fnOut.type = r.type

\* C22: in the schema of a table a column is readOnly and out of the
\* required list exactly when it is a primary key; another column is
\* required exactly when it is not nullable and has no default; a column is
\* x-nullable exactly when it is nullable; the required key is left out when
\* nothing is required.
C22_ColumnFlags ==
  fnOut.fn = "buildTableSchema" /\ fnOut.res.err = NoErr =>
    LET schema == fnOut.res.schema
        InRequired(name) == \E k \in DOMAIN schema.required : schema.required[k] = name
    IN /\ DOMAIN schema.properties = {fnIn.cols[i].name : i \in DOMAIN fnIn.cols}
       /\ \A i \in DOMAIN fnIn.cols :
            LET col == fnIn.cols[i]
                prop == schema.properties[col.name]
                pri == col.key \in {<<"P", "R", "I">>, <<"p", "r", "i">>}
                nullable == col.nullable = <<"Y", "E", "S">>
            IN /\ (prop.readOnly /\ ~InRequired(col.name)) <=> pri
               /\ ~pri => (InRequired(col.name) <=> (~nullable /\ ~col.hasDefault))
               /\ prop.xNullable <=> nullable
       /\ schema.hasRequired <=> schema.required # <<>>

\* A table with a primary key and a required column was described.
C22_Witness ==
  /\ fnOut.fn = "buildTableSchema" /\ fnOut.res.err = NoErr
  /\ Len(fnIn.cols) = 2
  /\ fnIn.cols[1].key = <<"P", "R", "I">> /\ fnIn.cols[1].nullable = <<"N", "O">>
  /\ ~fnIn.cols[1].hasDefault
  /\ fnIn.cols[2].key = <<>> /\ fnIn.cols[2].nullable = <<"N", "O">> /\ ~fnIn.cols[2].hasDefault
  /\ fnOut.res.schema.properties["id"].readOnly
  /\ fnOut.res.schema.required = <<"note">>

-----------------------------------------------------------------------------
(* The order of the steps of a call                                         *)

\* The SET statement a context gives rise to: none when it flattens to no
\* key, else the one statement of its sorted keys.
ExpectedSet(ctx) ==
  IF ctx.isNil \/ ~Formattable(ctx.kv) \/ DOMAIN FormatToContext(ctx.kv) = {} THEN <<>>
  ELSE LET res == injectContext(ctx, CHOOSE o \in FlatOrders(ctx) : TRUE, NoErr)
       IN <<res.stmts[1].text>>

\* The statements of a mutating operation that runs to its end
ExpectedStatements(in) ==
  CASE in.op = "TableCreate" -> [i \in 1..Len(in.rows) |-> "INSERT " \o in.rows[i]]
    [] in.op = "TableUpdate" -> <<"UPDATE">>
    [] in.op = "TableDelete" -> <<"DELETE">>
    [] in.op = "CallFunction" ->
         <<CallFunctionPlan(routines, in.funcName, in.data,
                            CHOOSE o \in Orders(DOMAIN in.data) : TRUE).query>>

\* The place of an event in the order of handleTransaction
StepRank(e, in) ==
  CASE e = "Conn" -> 1
    [] e = "BeginTx" -> 2
    [] e = "Preference" -> 3
    [] e \in {"Commit"} -> 6
    [] e = "Rollback" -> 7
    [] e = "Close" -> 8
    [] OTHER -> IF e \in {"UPDATE", "DELETE"} \/ \E i \in DOMAIN in.rows : e = "INSERT " \o in.rows[i]
                   \/ (in.op = "CallFunction" /\ <<e>> = ExpectedStatements(in))
                THEN 5 ELSE 4

CommittedWithContext(r) ==
  /\ pc[r] = "done"
  /\ req[r].op \in Mutating
  /\ ~req[r].ctx.isNil
  /\ ret[r].err = NoErr
  /\ tx[r].pref = "commit"

\* C23: a mutating call with a context takes its steps in the order
\* connection, begin, preference, SET, statements, end; every step at most
\* once but the statements; and when the preference is commit (or absent) and
\* nothing fails, the end is a commit and the value returned is the value of
\* the operation.
C23_StepOrder ==
  \A r \in Reqs :
    (req[r].op \in Mutating /\ ~req[r].ctx.isNil) =>
      LET log == seen[r].log
      IN /\ \A i, j \in DOMAIN log :
              i < j => /\ StepRank(log[i], req[r]) <= StepRank(log[j], req[r])
                       /\ StepRank(log[i], req[r]) # 5 => log[i] # log[j]
         /\ CommittedWithContext(r) =>
              /\ log = <<"Conn", "BeginTx", "Preference">> \o ExpectedSet(req[r].ctx)
                         \o ExpectedStatements(req[r]) \o <<"Commit", "Close">>
              /\ ret[r].val = tx[r].result
              /\ tx[r].state = "committed"

\* An update under a context that sets session variables was committed.
C23_Witness ==
  \E r \in Reqs :
    /\ CommittedWithContext(r)
    /\ req[r].op = "TableUpdate"
    /\ ExpectedSet(req[r].ctx) # <<>>
    /\ Len(seen[r].log) = 7
    /\ ret[r].val = IntVal(1)

-----------------------------------------------------------------------------
(* Failed context injection                                                 *)

\* The call of request r returned the error of a failed injectContext.
InjectionFailed(r) ==
  /\ pc[r] = "done"
  /\ req[r].op \in Mutating
  /\ ~req[r].ctx.isNil
  /\ \/ Contains(ret[r].err, "failed to format context: ")
     \/ Contains(ret[r].err, "failed to set session variables: ")

\* The context of request r holds a value that cannot be flattened.
HoldsUnsupported(r) ==
  /\ ~req[r].ctx.isNil
  /\ \E k \in DOMAIN req[r].ctx.kv : req[r].ctx.kv[k].t = "unsupported"

\* C24: when the injection of the context fails in a mutating call, the
\* transaction is rolled back, no statement of the operation is executed,
\* nothing is persisted and the injection error is returned; a context that
\* cannot be flattened always fails so.
C24_InjectionFailureRollsBack ==
  \A r \in Reqs :
    /\ InjectionFailed(r) =>
         /\ tx[r].state = "rolledback"
         /\ seen[r].op = ""
         /\ \A i \in DOMAIN seen[r].log : StepRank(seen[r].log[i], req[r]) # 5
         /\ ~Contains(seen[r].log, "Commit")
         /\ Persisted(r) = {}
         /\ Head(ret[r].err) = "failed to inject context: "
    /\ (pc[r] = "done" /\ req[r].op \in Mutating /\ HoldsUnsupported(r)
          /\ Contains(seen[r].log, "Preference"))
         => /\ InjectionFailed(r)
            /\ ret[r].err = <<"failed to inject context: ", "failed to format context: ",
                              "cannot format value">>

\* The session rejected the SET statement of a TableCreate.
C24_Witness ==
  \E r \in Reqs :
    /\ InjectionFailed(r)
    /\ req[r].op = "TableCreate"
    /\ Contains(ret[r].err, "failed to set session variables: ")
    /\ seen[r].log[4] = ExpectedSet(req[r].ctx)[1]
    /\ seen[r].log[5] = "Rollback"

-----------------------------------------------------------------------------
(* A failed commit                                                          *)

\* The call of request r tried to commit and the commit failed.
CommitFailed(r) ==
  /\ pc[r] = "done"
  /\ req[r].op \in Mutating
  /\ Contains(seen[r].log, "Commit")
  /\ tx[r].state # "committed"

\* C25: when the commit fails, one rollback is attempted, the error returned
\* reports the commit failure and carries the error of the rollback when that
\* failed too, and no result is returned; a call that was to commit returns
\* without error only when its transaction was committed.
C25_CommitFailureReported ==
  \A r \in Reqs :
    /\ CommitFailed(r) =>
         /\ Cardinality({i \in DOMAIN seen[r].log : seen[r].log[i] = "Rollback"}) = 1
         /\ ret[r].err # NoErr
         /\ Len(ret[r].err) >= 2
         /\ ret[r].err[1] = "failed to commit transaction: "
         /\ ret[r].err[2] = "stored procedure error"
         /\ Len(ret[r].err) > 2 =>
              ret[r].err[3] = " (rollback also failed: " /\ Len(ret[r].err) = 5
         /\ ret[r].val \in {NilVal, IntVal(0)}
    /\ (pc[r] = "done" /\ req[r].op \in Mutating /\ ret[r].err = NoErr
          /\ (req[r].ctx.isNil \/ tx[r].pref = "commit"))
         => tx[r].state = "committed"

\* The commit of a TableCreate of two rows failed.
C25_Witness ==
  \E r \in Reqs :
    /\ CommitFailed(r)
    /\ req[r].op = "TableCreate"
    /\ Len(req[r].rows) = 2
    /\ seen[r].op = "ok"
    /\ ret[r].val = NilVal

-----------------------------------------------------------------------------
(* TableGet                                                                 *)

\* C26: a TableGet begins no transaction; on its connection it executes the
\* SET statement of its context, when the context flattens to a key, and
\* then the SELECT; when the injection fails the SELECT is not executed and
\* the error of the injection is returned.
C26_ReadWithoutTransaction ==
  \A r \in Reqs :
    req[r].op = "TableGet" =>
      LET log == seen[r].log
      IN /\ tx[r] = NoTx
         /\ \A i \in DOMAIN log : log[i] \notin {"BeginTx", "Preference", "Commit", "Rollback"}
         /\ (pc[r] = "done" /\ seen[r].op # "") =>
              log = <<"Conn">> \o ExpectedSet(req[r].ctx) \o <<"SELECT", "Close">>
         /\ (pc[r] = "done" /\ Contains(ret[r].err, "failed to set session variables: ")) =>
              /\ log = <<"Conn">> \o ExpectedSet(req[r].ctx) \o <<"Close">>
              /\ Head(ret[r].err) = "failed to set session variables: "
         /\ (pc[r] = "done" /\ HoldsUnsupported(r) /\ Contains(log, "Conn")) =>
              /\ log = <<"Conn", "Close">>
              /\ ret[r].err = <<"failed to format context: ", "cannot format value">>

\* A read under a context: the SET statement, then the SELECT.
C26_Witness ==
  \E r \in Reqs :
    /\ req[r].op = "TableGet"
    /\ pc[r] = "done" /\ ret[r].err = NoErr
    /\ ExpectedSet(req[r].ctx) # <<>>
    /\ Len(seen[r].log) = 4
    /\ seen[r].log[2] = ExpectedSet(req[r].ctx)[1]
    /\ seen[r].log[3] = "SELECT"

\* A read whose SET statement the session rejected.
C26_InjectionRejected ==
  \E r \in Reqs :
    /\ req[r].op = "TableGet"
    /\ pc[r] = "done"
    /\ ret[r].err = <<"failed to set session variables: ", "stored procedure error">>

-----------------------------------------------------------------------------
(* The cleanup task of the cache                                            *)

\* C27: once started the cleanup task stays started whatever its cycles
\* answer; a cycle changes nothing of any call in flight; and every cycle,
\* failed or not, is followed by another one.
C27_CleanupGoesOn ==
  /\ [][/\ cache.cleaner = "on" => cache'.cleaner = "on"
        /\ cache'.cycles # cache.cycles =>
             /\ UNCHANGED <<pc, req, conn, pool, tx, db, ret, seen, routines, fnIn, fnOut, handle, boot>>
             /\ cache'.set = cache.set]_vars
  /\ \A n \in 0..(MaxCycles - 1) :
       (cache.cleaner = "on" /\ cache.cycles = n) ~> (cache.cycles > n)

\* Two cycles ran, the last one failed, while a request and a Set call were
\* in flight.
C27_Witness ==
  /\ cache.cleaner = "on"
  /\ cache.cycles = 2
  /\ cache.last.outcome = "failed"
  /\ cache.set # NoSet
  /\ \E r \in Reqs : pc[r] = "op"

\* C28: a cleanup cycle deletes only entries whose expiry is at or before
\* the time of the cycle.
C28_CleanupDeletesOnlyExpired ==
  \A d \in cache.last.deleted : d.expires <= d.at

-----------------------------------------------------------------------------
(* The start of the two plugins (SpecBoot)                                  *)

BothStarted == \A p \in BootPlugins : boot.pc[p] = "done" /\ boot.err[p] = NoErr

\* C29: when both InitConnection calls have returned without error, one
\* pool was opened, the catalog was loaded once, and no pool was replaced.
C29_OnePoolOneLoad ==
  BothStarted => boot.opened = 1 /\ boot.loads = 1 /\ boot.replaced = 0

-----------------------------------------------------------------------------
(* The iteration orders of convertILIKEtoLower (SpecFilter)                 *)

\* The conditions of a filter: one for each operator of a condition map, one
\* for a plain value.
RECURSIVE CountConditions(_, _)
CountConditions(kv, fields) ==
  IF fields = {} THEN 0
  ELSE LET f == CHOOSE g \in fields : TRUE
       IN (IF kv[f].t = "map" THEN Cardinality(DOMAIN kv[f].v) ELSE 1)
            + CountConditions(kv, fields \ {f})

\* C30: the result of convertILIKEtoLower is the same in whatever order the
\* maps are iterated, and it holds as many conditions as the input.
C30_DeterminedAndLossless ==
  fnOut.fn = "convertILIKEtoLower" /\ ~fnIn.where.isNil =>
    /\ \A fo \in Orders(DOMAIN fnIn.where.kv), oo \in OpOrders(fnIn.where.kv) :
         convertILIKEtoLower(fnIn.where, fo, oo) = fnOut.result
    /\ CountConditions(fnOut.result.kv, DOMAIN fnOut.result.kv)
         = CountConditions(fnIn.where.kv, DOMAIN fnIn.where.kv)

====
